---- MODULE Spec2Model ----
(***************************************************************************)
(* Model of the packaging-fee DataService (services/dataService) and of    *)
(* the component handlers that change its state (VendorSubmission,         *)
(* AdminReview, FeeSimulator).                                             *)
(*                                                                         *)
(* JavaScript numbers are modelled as exact rationals plus the three       *)
(* IEEE specials NaN, +Infinity and -Infinity. A loosely typed field       *)
(* (weight_value, case_size, eco_modulation_discount) is a tagged value    *)
(* [t, s, v]: undefined, a string or a number. String fields read from     *)
(* CSV use "" for a blank cell.                                            *)
(***************************************************************************)
EXTENDS Integers, Sequences, FiniteSets, TLC

(***************************************************************************)
(* Bounds of the model.                                                    *)
(***************************************************************************)
MaxRecords == 2
MaxBatch == 2
MaxEdits == 2
MaxFiles == 2

(***************************************************************************)
(* JavaScript numbers.                                                     *)
(***************************************************************************)
Abs(i) == IF i < 0 THEN 0 - i ELSE i

RECURSIVE Gcd(_, _)
Gcd(a, b) == IF b = 0 THEN a ELSE Gcd(b, a % b)

Fin(n, d) ==
  LET g == Gcd(Abs(n), Abs(d))
      s == IF d < 0 THEN 0 - 1 ELSE 1
  IN [k |-> "fin", n |-> (s * n) \div g, d |-> (s * d) \div g]

Int2Num(i) == [k |-> "fin", n |-> i, d |-> 1]
Zero == Int2Num(0)
One == Int2Num(1)
NaN == [k |-> "nan", n |-> 0, d |-> 1]
PosInf == [k |-> "inf", n |-> 1, d |-> 1]
NegInf == [k |-> "inf", n |-> 0 - 1, d |-> 1]

isNaN(x) == x.k = "nan"
isFinite(x) == x.k = "fin"
Sign(x) == IF x.n > 0 THEN 1 ELSE IF x.n < 0 THEN 0 - 1 ELSE 0
InfOf(s) == IF s > 0 THEN PosInf ELSE NegInf

\* a * b
Mul(a, b) ==
  IF isNaN(a) \/ isNaN(b) THEN NaN
  ELSE IF isFinite(a) /\ isFinite(b) THEN Fin(a.n * b.n, a.d * b.d)
  ELSE IF Sign(a) = 0 \/ Sign(b) = 0 THEN NaN
  ELSE InfOf(Sign(a) * Sign(b))

\* a - b
Sub(a, b) ==
  IF isNaN(a) \/ isNaN(b) THEN NaN
  ELSE IF isFinite(a) /\ isFinite(b) THEN Fin(a.n * b.d - b.n * a.d, a.d * b.d)
  ELSE IF isFinite(a) THEN InfOf(0 - Sign(b))
  ELSE IF isFinite(b) THEN a
  ELSE IF Sign(a) = Sign(b) THEN NaN ELSE a

\* a + b
Add(a, b) ==
  IF isNaN(a) \/ isNaN(b) THEN NaN
  ELSE IF isFinite(a) /\ isFinite(b) THEN Fin(a.n * b.d + b.n * a.d, a.d * b.d)
  ELSE IF isFinite(a) THEN b
  ELSE IF isFinite(b) THEN a
  ELSE IF Sign(a) = Sign(b) THEN a ELSE NaN

\* a / b (the sign of a zero divisor is taken as positive)
Div(a, b) ==
  IF isNaN(a) \/ isNaN(b) THEN NaN
  ELSE IF isFinite(a) /\ isFinite(b)
       THEN IF b.n = 0
            THEN IF a.n = 0 THEN NaN ELSE InfOf(Sign(a))
            ELSE Fin(a.n * b.d, a.d * b.n)
  ELSE IF isFinite(a) THEN Zero
  ELSE IF isFinite(b) THEN InfOf(Sign(a) * (IF Sign(b) < 0 THEN 0 - 1 ELSE 1))
  ELSE NaN

\* a > b
Gt(a, b) ==
  IF isNaN(a) \/ isNaN(b) THEN FALSE
  ELSE IF isFinite(a) /\ isFinite(b) THEN a.n * b.d > b.n * a.d
  ELSE IF isFinite(a) THEN Sign(b) < 0
  ELSE IF isFinite(b) THEN Sign(a) > 0
  ELSE Sign(a) > Sign(b)

\* a <= b
Le(a, b) == ~isNaN(a) /\ ~isNaN(b) /\ ~Gt(a, b)

\* a >= b
Ge(a, b) == ~isNaN(a) /\ ~isNaN(b) /\ ~Gt(b, a)

(***************************************************************************)
(* Loosely typed JavaScript values.                                        *)
(***************************************************************************)
Undef == [t |-> "undef", s |-> "", v |-> Zero]
Str(s) == [t |-> "str", s |-> s, v |-> Zero]
NumV(x) == [t |-> "num", s |-> "", v |-> x]

\* the truthiness of a value, as used by !x, x || y and x ? a : b
Truthy(j) ==
  CASE j.t = "undef" -> FALSE
    [] j.t = "str" -> j.s # ""
    [] OTHER -> ~isNaN(j.v) /\ Sign(j.v) # 0

\* parseFloat on the strings of the model
ParseFloatTable ==
  [s \in {"240", "12", "2.5", "0.2", "0.5", "1", "0", "-5", "Infinity"} |->
     CASE s = "240" -> Int2Num(240)
       [] s = "12" -> Int2Num(12)
       [] s = "2.5" -> Fin(5, 2)
       [] s = "0.2" -> Fin(1, 5)
       [] s = "0.5" -> Fin(1, 2)
       [] s = "1" -> One
       [] s = "0" -> Zero
       [] s = "-5" -> Int2Num(0 - 5)
       [] OTHER -> PosInf]

parseFloat(s) == IF s \in DOMAIN ParseFloatTable THEN ParseFloatTable[s] ELSE NaN

\* parseInt on the strings of the model: the integer prefix
ParseIntTable ==
  [s \in {"240", "12", "2.5", "1", "0", "-5"} |->
     CASE s = "240" -> Int2Num(240)
       [] s = "12" -> Int2Num(12)
       [] s = "2.5" -> Int2Num(2)
       [] s = "1" -> One
       [] s = "0" -> Zero
       [] OTHER -> Int2Num(0 - 5)]

parseInt(s) == IF s \in DOMAIN ParseIntTable THEN ParseIntTable[s] ELSE NaN

\* String.prototype.toLowerCase on the strings of the model
LowerTable ==
  [s \in {"PET", "Pet", "Glass", "Paper", "Cardboard", "OZ", "Oz", "LBS",
          "G", "Grams", "TRUE", "True"} |->
     CASE s \in {"PET", "Pet"} -> "pet"
       [] s = "Glass" -> "glass"
       [] s = "Paper" -> "paper"
       [] s = "Cardboard" -> "cardboard"
       [] s \in {"OZ", "Oz"} -> "oz"
       [] s = "LBS" -> "lbs"
       [] s = "G" -> "g"
       [] s = "Grams" -> "grams"
       [] OTHER -> "true"]

toLowerCase(s) == IF s \in DOMAIN LowerTable THEN LowerTable[s] ELSE s

\* Array.prototype.find: the first element satisfying the test, as a
\* sequence of length 0 (undefined) or 1
RECURSIVE FindFrom(_, _, _)
FindFrom(arr, Test(_), i) ==
  IF i > Len(arr) THEN <<>>
  ELSE IF Test(arr[i]) THEN <<arr[i]>>
  ELSE FindFrom(arr, Test, i + 1)

find(arr, Test(_)) == FindFrom(arr, Test, 1)

\* Array.prototype.findIndex, 0-based, -1 when nothing matches
RECURSIVE FindIndexFrom(_, _, _)
FindIndexFrom(arr, Test(_), i) ==
  IF i > Len(arr) THEN 0 - 1
  ELSE IF Test(arr[i]) THEN i - 1
  ELSE FindIndexFrom(arr, Test, i + 1)

findIndex(arr, Test(_)) == FindIndexFrom(arr, Test, 1)

(***************************************************************************)
(* Reference data: the rows Papa.parse returns for the four CSV files      *)
(* (header: true, every cell a string, a blank cell the empty string).     *)
(***************************************************************************)
MaterialsCsv ==
  << [material_name |-> "PET", category_group |-> "Plastic"],
     [material_name |-> "Glass", category_group |-> "Glass"],
     [material_name |-> "Paper", category_group |-> "Fiber"] >>

\* "glass" differs from the material "Glass" by case only
FeesCsv ==
  << [material_name |-> "PET", category_group |-> "Plastic",
      fee_cents_per_gram |-> "2.5", eco_modulation_discount |-> "0.2"],
     [material_name |-> "glass", category_group |-> "Glass",
      fee_cents_per_gram |-> "1", eco_modulation_discount |-> "0.5"],
     [material_name |-> "Paper", category_group |-> "Fiber",
      fee_cents_per_gram |-> "0.5", eco_modulation_discount |-> ""] >>

VendorsCsv ==
  << [vendor_id |-> "V1", vendor_name |-> "Acme", exempt |-> "TRUE"],
     [vendor_id |-> "V2", vendor_name |-> "Bolt", exempt |-> "false"] >>

ProductsCsv ==
  << [sku_id |-> "S1", sku_name |-> "Tray", vendor_id |-> "V1", category |-> "Food"],
     [sku_id |-> "S2", sku_name |-> "Jar", vendor_id |-> "V2", category |-> "Food"] >>

\* x || y on numbers
OrNum(x, y) == IF Truthy(NumV(x)) THEN x ELSE y

\* x || y on strings
OrStr(x, y) == IF x # "" THEN x ELSE y

\* the mapping of loadMaterials
MaterialOfRow(row) ==
  [material_name |-> OrStr(row.material_name, ""),
   category_group |-> OrStr(row.category_group, "")]

\* the mapping of loadFees
FeeOfRow(row) ==
  [material_name |-> OrStr(row.material_name, ""),
   category_group |-> OrStr(row.category_group, ""),
   fee_cents_per_gram |->
     OrNum(parseFloat(OrStr(row.fee_cents_per_gram, "0")), Zero),
   eco_modulation_discount |->
     IF row.eco_modulation_discount # ""
     THEN NumV(OrNum(parseFloat(row.eco_modulation_discount), Zero))
     ELSE Undef]

\* the mapping of loadVendors
VendorOfRow(row) ==
  [vendor_id |-> OrStr(row.vendor_id, ""),
   vendor_name |-> OrStr(row.vendor_name, ""),
   exempt |-> (toLowerCase(OrStr(row.exempt, "false")) = "true")]

\* the mapping of loadProducts
ProductOfRow(row) ==
  [sku_id |-> OrStr(row.sku_id, ""),
   sku_name |-> OrStr(row.sku_name, ""),
   vendor_id |-> OrStr(row.vendor_id, ""),
   category |-> OrStr(row.category, "")]

MapSeq(arr, F(_)) == [i \in 1..Len(arr) |-> F(arr[i])]

(***************************************************************************)
(* Raw submission rows offered to the service.                             *)
(***************************************************************************)
Row(vendor, sku, material, category, weight, unit, basis, caseSize) ==
  [vendor_id |-> vendor, sku_id |-> sku, component |-> "Tray",
   material_name |-> material, material_category |-> category,
   weight_value |-> weight, weight_unit |-> unit,
   quantity_basis |-> basis, case_size |-> caseSize, notes |-> ""]

N(i) == NumV(Int2Num(i))

\* the rows of the call sequences: a clean row, a second clean row of another
\* vendor and SKU, a row raising three issues, and a rejected row
Rows ==
  { Row("V1", "S1", "PET", "Plastic", N(10), "g", "unit", Undef),
    Row("V2", "S2", "Paper", "Fiber", N(2), "OZ", "unit", Undef),
    Row("V2", "S1", "Cardboard", "Fiber", N(400), "parsecs", "case", Str("0")),
    Row("V1", "S1", "PET", "Plastic", N(0 - 5), "g", "unit", Undef) }

\* the rows a single call is tried on: every combination of the field values
Weights ==
  { Undef, Str("abc"), Str("240"), Str("Infinity"), Str("0"),
    N(0 - 5), N(0), N(1), N(10), N(300), N(400) }

Units == { "", "g", "Grams", "OZ", "ounces", "lbs", "pounds", "parsecs" }

MaterialNames == { "", "PET", "Pet", "Glass", "Paper", "Cardboard" }

Categories == { "Plastic", "Fiber" }

CaseSizes == { Undef, N(12), N(0), N(0 - 5), Str("12"), Str("2.5"), Str("abc") }

AllRows ==
  { Row(vendor, "S1", material, category, weight, unit, "unit", Undef) :
      vendor \in {"V1", "V2", "V9"}, material \in MaterialNames,
      category \in Categories, weight \in Weights, unit \in Units }
  \cup
  { Row("V1", "S1", material, "Plastic", weight, unit, "case", caseSize) :
      material \in {"PET", "Paper"}, weight \in {Str("240"), N(300), N(400)},
      unit \in {"g", "OZ", "parsecs"}, caseSize \in CaseSizes }

(***************************************************************************)
(* DataService.processSubmission                                           *)
(***************************************************************************)
Issue(rowNumber, field, message, fix, severity) ==
  [row |-> rowNumber, field |-> field, message |-> message,
   suggested_fix |-> fix, severity |-> severity]

OuncesToGrams == Fin(2835, 100)
PoundsToGrams == Fin(45359, 100)
OutlierGrams == 300

\* lines 141-144: weight_value as a number
WeightValue(submission) ==
  LET w == submission.weight_value
  IN IF w.t = "num" THEN w.v
     ELSE IF Truthy(w) THEN parseFloat(w.s) ELSE Zero

\* lines 146 and 158: the two early returns
WeightRejected(submission) ==
  LET weightValue == WeightValue(submission)
  IN isNaN(weightValue) \/ Le(weightValue, Zero)

RequiredMissing(submission) ==
  submission.material_name = "" \/ submission.weight_unit = ""

HardRejected(submission) ==
  WeightRejected(submission) \/ RequiredMissing(submission)

\* lines 169-183: unit conversion
\* IsOunces comparing the unit as written
IsOunces_exact(unit) == unit = "ounces" \/ unit = "oz"

IsOunces(unit) == toLowerCase(unit) = "ounces" \/ toLowerCase(unit) = "oz"
IsPounds(unit) == toLowerCase(unit) = "pounds" \/ toLowerCase(unit) = "lbs"
IsGrams(unit) == toLowerCase(unit) = "grams" \/ toLowerCase(unit) = "g"

\* ConvertUnit giving 0 for a unit it does not know
ConvertUnit_dropUnknown(weightValue, unit) ==
  IF IsOunces(unit) THEN Mul(weightValue, OuncesToGrams)
  ELSE IF IsPounds(unit) THEN Mul(weightValue, PoundsToGrams)
  ELSE IF IsGrams(unit) THEN weightValue
  ELSE Zero

ConvertUnit(weightValue, unit) ==
  IF IsOunces(unit) THEN Mul(weightValue, OuncesToGrams)
  ELSE IF IsPounds(unit) THEN Mul(weightValue, PoundsToGrams)
  ELSE weightValue

\* lines 185-194: case division
CaseSize(submission) ==
  LET c == submission.case_size
  IN IF c.t = "num" THEN c.v ELSE parseInt(c.s)

\* ApplyCase dividing by whatever case size a case row carries
ApplyCase_always(grams, submission) ==
  IF submission.quantity_basis = "case" /\ Truthy(submission.case_size)
  THEN Div(grams, CaseSize(submission))
  ELSE grams

ApplyCase(grams, submission) ==
  IF submission.quantity_basis = "case" /\ Truthy(submission.case_size)
     /\ Gt(CaseSize(submission), Zero)
  THEN Div(grams, CaseSize(submission))
  ELSE grams

NormalizedWeight(submission) ==
  ApplyCase(ConvertUnit(WeightValue(submission), submission.weight_unit), submission)

\* lines 197-199: case-insensitive material lookup
FindMaterial(mats, name) ==
  find(mats, LAMBDA m : toLowerCase(m.material_name) = toLowerCase(name))

\* FindFee comparing the names without regard to letter case
FindFee_anyCase(fs, material) ==
  find(fs, LAMBDA f : toLowerCase(f.material_name) = toLowerCase(material.material_name))

\* line 239: exact fee lookup on the canonical material name
FindFee(fs, material) ==
  find(fs, LAMBDA f : f.material_name = material.material_name)

\* ComputeFee with the discount taken as a percentage
ComputeFee_percent(grams, material, fs) ==
  LET feeInfo == IF material = <<>> THEN <<>> ELSE FindFee(fs, material[1])
      feeRate == IF feeInfo = <<>> THEN Zero ELSE feeInfo[1].fee_cents_per_gram
      ecoDiscount ==
        IF feeInfo # <<>> /\ Truthy(feeInfo[1].eco_modulation_discount)
        THEN feeInfo[1].eco_modulation_discount.v ELSE Zero
      raw == IF feeInfo = <<>> THEN Zero
             ELSE Mul(Mul(grams, feeRate), Sub(One, Div(ecoDiscount, Int2Num(100))))
  IN [feeCents |-> IF isNaN(raw) \/ ~isFinite(raw) THEN Zero ELSE raw,
      feeRate |-> feeRate,
      ecoDiscount |-> ecoDiscount]

\* lines 233-253: fee, rate and discount of a row
ComputeFee(grams, material, fs) ==
  LET feeInfo == IF material = <<>> THEN <<>> ELSE FindFee(fs, material[1])
      feeRate == IF feeInfo = <<>> THEN Zero ELSE feeInfo[1].fee_cents_per_gram
      ecoDiscount ==
        IF feeInfo # <<>> /\ Truthy(feeInfo[1].eco_modulation_discount)
        THEN feeInfo[1].eco_modulation_discount.v ELSE Zero
      raw == IF feeInfo = <<>> THEN Zero
             ELSE Mul(Mul(grams, feeRate), Sub(One, ecoDiscount))
  IN [feeCents |-> IF isNaN(raw) \/ ~isFinite(raw) THEN Zero ELSE raw,
      feeRate |-> feeRate,
      ecoDiscount |-> ecoDiscount]

\* RowIssues raising the outlier warning from 300 g on
RowIssues_outlierAt300(submission, rowNumber, mats) ==
  IF WeightRejected(submission)
  THEN << Issue(rowNumber, "weight_value", "Invalid weight value",
                "Weight must be a positive number", "error") >>
  ELSE IF RequiredMissing(submission)
  THEN << Issue(rowNumber, "material_name,weight_unit", "Missing required fields",
                "Fill in material_name and weight_unit", "error") >>
  ELSE
    LET unit == submission.weight_unit
        grams == NormalizedWeight(submission)
        material == FindMaterial(mats, submission.material_name)
        unitIssue ==
          IF ~IsOunces(unit) /\ ~IsPounds(unit) /\ ~IsGrams(unit)
          THEN << Issue(rowNumber, "weight_unit", "Invalid weight unit: " \o unit,
                        "Use grams, ounces, or pounds", "warning") >>
          ELSE <<>>
        materialIssue ==
          IF material = <<>>
          THEN << Issue(rowNumber, "material_name",
                        "Invalid material: " \o submission.material_name,
                        "Use a valid material from the materials list", "error") >>
          ELSE <<>>
        outlierIssue ==
          IF Ge(grams, Int2Num(OutlierGrams))
          THEN << Issue(rowNumber, "weight_value", "Weight seems unusually high",
                        "Verify this is packaging weight, not product weight",
                        "warning") >>
          ELSE <<>>
        categoryIssue ==
          IF material # <<>> /\ material[1].category_group # submission.material_category
          THEN << Issue(rowNumber, "material_category",
                        "Category mismatch: " \o submission.material_category
                          \o " should be " \o material[1].category_group,
                        "Change category to " \o material[1].category_group,
                        "warning") >>
          ELSE <<>>
    IN unitIssue \o materialIssue \o outlierIssue \o categoryIssue

\* lines 139-231: the issues the row raises, in the order of the checks
RowIssues(submission, rowNumber, mats) ==
  IF WeightRejected(submission)
  THEN << Issue(rowNumber, "weight_value", "Invalid weight value",
                "Weight must be a positive number", "error") >>
  ELSE IF RequiredMissing(submission)
  THEN << Issue(rowNumber, "material_name,weight_unit", "Missing required fields",
                "Fill in material_name and weight_unit", "error") >>
  ELSE
    LET unit == submission.weight_unit
        grams == NormalizedWeight(submission)
        material == FindMaterial(mats, submission.material_name)
        unitIssue ==
          IF ~IsOunces(unit) /\ ~IsPounds(unit) /\ ~IsGrams(unit)
          THEN << Issue(rowNumber, "weight_unit", "Invalid weight unit: " \o unit,
                        "Use grams, ounces, or pounds", "warning") >>
          ELSE <<>>
        materialIssue ==
          IF material = <<>>
          THEN << Issue(rowNumber, "material_name",
                        "Invalid material: " \o submission.material_name,
                        "Use a valid material from the materials list", "error") >>
          ELSE <<>>
        outlierIssue ==
          IF Gt(grams, Int2Num(OutlierGrams))
          THEN << Issue(rowNumber, "weight_value", "Weight seems unusually high",
                        "Verify this is packaging weight, not product weight",
                        "warning") >>
          ELSE <<>>
        categoryIssue ==
          IF material # <<>> /\ material[1].category_group # submission.material_category
          THEN << Issue(rowNumber, "material_category",
                        "Category mismatch: " \o submission.material_category
                          \o " should be " \o material[1].category_group,
                        "Change category to " \o material[1].category_group,
                        "warning") >>
          ELSE <<>>
    IN unitIssue \o materialIssue \o outlierIssue \o categoryIssue

\* IsExempt taking a vendor that is not in the registry for exempt
IsExempt_unknownExempt(vs, vendorId) ==
  LET vendor == find(vs, LAMBDA v : v.vendor_id = vendorId)
  IN vendor = <<>> \/ vendor[1].exempt

\* lines 255-258: the exemption flag of the row's vendor
IsExempt(vs, vendorId) ==
  LET vendor == find(vs, LAMBDA v : v.vendor_id = vendorId)
  IN vendor # <<>> /\ vendor[1].exempt

\* lines 267-274: the row's fields plus the five computed ones
Processed(submission, grams, fee, exempt) ==
  [f \in DOMAIN submission \cup
         {"normalized_weight_grams", "fee_cents", "fee_rate_cents_per_gram",
          "eco_modulation_discount", "is_exempt"} |->
     CASE f = "normalized_weight_grams" -> NumV(grams)
       [] f = "fee_cents" -> NumV(fee.feeCents)
       [] f = "fee_rate_cents_per_gram" -> NumV(fee.feeRate)
       [] f = "eco_modulation_discount" -> NumV(fee.ecoDiscount)
       [] f = "is_exempt" -> exempt
       [] OTHER -> submission[f]]

\* processSubmission appending the issue of a rejected row to validationIssues
\* before it returns null
processSubmission_reportsRejected(submission, rowNumber, mats, fs, vs) ==
  IF HardRejected(submission)
  THEN [recs |-> <<>>,
        pushed |-> << Issue(rowNumber, "weight_value", "Invalid weight value",
                            "Weight must be a positive number", "error") >>]
  ELSE
    LET grams == NormalizedWeight(submission)
        material == FindMaterial(mats, submission.material_name)
        fee == ComputeFee(grams, material, fs)
    IN [recs |-> << Processed(submission, grams, fee, IsExempt(vs, submission.vendor_id)) >>,
        pushed |-> RowIssues(submission, rowNumber, mats)]

\* processSubmission returning null for a row whose material does not resolve
processSubmission_strict(submission, rowNumber, mats, fs, vs) ==
  IF HardRejected(submission)
  THEN [recs |-> <<>>, pushed |-> <<>>]
  ELSE
    LET grams == NormalizedWeight(submission)
        material == FindMaterial(mats, submission.material_name)
        fee == ComputeFee(grams, material, fs)
    IN [recs |-> IF material = <<>> THEN <<>>
                 ELSE << Processed(submission, grams, fee,
                                   IsExempt(vs, submission.vendor_id)) >>,
        pushed |-> RowIssues(submission, rowNumber, mats)]

\* The whole function: recs is <<>> for null and <<record>> otherwise; pushed
\* is what line 265 appends to validationIssues. The two early returns leave
\* before line 265, so the issue they built stays in the local array.
processSubmission(submission, rowNumber, mats, fs, vs) ==
  IF HardRejected(submission)
  THEN [recs |-> <<>>, pushed |-> <<>>]
  ELSE
    LET grams == NormalizedWeight(submission)
        material == FindMaterial(mats, submission.material_name)
        fee == ComputeFee(grams, material, fs)
    IN [recs |-> << Processed(submission, grams, fee, IsExempt(vs, submission.vendor_id)) >>,
        pushed |-> RowIssues(submission, rowNumber, mats)]

(***************************************************************************)
(* State of the DataService singleton, plus the operation that ran last   *)
(* with its arguments.                                                     *)
(***************************************************************************)
VARIABLES materials, fees, vendors, products, submissions, validationIssues, last

\* what the last call of the service returned: the output of an aggregation,
\* undefined after a method that returns nothing
VARIABLE returned

(***************************************************************************)
(* State of the components: the row AdminReview is editing and its form;   *)
(* the record FeeSimulator has selected, its parameters and its results;   *)
(* the uploaded rows of VendorSubmission, their validation results and     *)
(* the file reads of the current selection.                                *)
(***************************************************************************)
VARIABLES editingId, editForm,
          selectedSubmission, simulationParams, simulationResults,
          fileData, validationResults, uploadFiles, allData, pendingReads

\* the number of input events the forms have taken so far
VARIABLE edits

\* loadAllData: the state of each of the four loads it started, and the
\* state of the promise it returned
VARIABLES loads, loadPromise

\* WorkflowWizard: the index of the step shown, the completion flags, and the
\* figures handed to the dashboard
VARIABLES currentStep, workflowData, dashboardData

wizardState == <<currentStep, workflowData, dashboardData>>

referenceTables == <<materials, fees, vendors, products>>

\* the reference tables and the state of their loading
tables == <<referenceTables, loads, loadPromise>>

adminState == <<editingId, editForm>>

simulatorState == <<selectedSubmission, simulationParams, simulationResults>>

uploadState == <<fileData, validationResults, uploadFiles, allData, pendingReads>>

ui == <<adminState, simulatorState, uploadState, edits>>

vars == <<tables, submissions, validationIssues, last, returned, ui, wizardState>>

NoPatch == [f \in {} |-> Undef]

Op(name, rows, index, patch) ==
  [op |-> name, rows |-> rows, index |-> index, patch |-> patch]

\* The service as the components find it: the tables still as constructed
\* (lines 6-9, no load has completed) or as loadAllData (lines 13-92) leaves
\* them when the four fetches succeed; the two collections as constructed
\* (lines 10-11).
\* WorkflowWizard.tsx lines 25-39: the initial state of the wizard (null is
\* the empty sequence)
WizardMounted ==
  /\ currentStep = 0
  /\ workflowData =
       [filesUploaded |-> FALSE, reviewCompleted |-> FALSE, simulationDone |-> FALSE]
  /\ dashboardData = [stats |-> <<>>, topSkus |-> <<>>, vendorTotals |-> <<>>]

TableNames == {"materials", "fees", "vendors", "products"}

TablesEmpty ==
  /\ materials = <<>>
  /\ fees = <<>>
  /\ vendors = <<>>
  /\ products = <<>>

TablesLoaded ==
  /\ materials = MapSeq(MaterialsCsv, MaterialOfRow)
  /\ fees = MapSeq(FeesCsv, FeeOfRow)
  /\ vendors = MapSeq(VendorsCsv, VendorOfRow)
  /\ products = MapSeq(ProductsCsv, ProductOfRow)

\* AdminReview lines 17-18, FeeSimulator.tsx lines 18-25 and 467-469: the
\* initial state of the components (null is the empty sequence, or "" for
\* editingId)
InitialParams ==
  [newMaterial |-> "", newWeight |-> NumV(Zero), newWeightUnit |-> "grams",
   newCaseSize |-> NumV(One)]

ComponentsMounted ==
  /\ editingId = ""
  /\ editForm = NoPatch
  /\ selectedSubmission = <<>>
  /\ simulationParams = InitialParams
  /\ simulationResults = <<>>
  /\ fileData = <<>>
  /\ validationResults = <<>>
  /\ uploadFiles = <<>>
  /\ allData = <<>>
  /\ pendingReads = {}
  /\ edits = 0

Init ==
  /\ TablesEmpty \/ TablesLoaded
  /\ submissions = <<>>
  /\ validationIssues = <<>>
  /\ last = Op("new", <<>>, 0, NoPatch)
  /\ returned = Undef
  /\ loads = [t \in TableNames |-> "idle"]
  /\ loadPromise = "none"
  /\ WizardMounted
  /\ ComponentsMounted

(***************************************************************************)
(* The methods that change the two collections, as functions of the state. *)
(***************************************************************************)
State(subs, issues) == [submissions |-> subs, validationIssues |-> issues]

\* lines 130-135: the forEach of processSubmissions from row i on
RECURSIVE ProcessFrom(_, _, _, _, _, _)
ProcessFrom(rows, i, st, mats, fs, vs) ==
  IF i > Len(rows) THEN st
  ELSE LET r == processSubmission(rows[i], i, mats, fs, vs)
       IN ProcessFrom(rows, i + 1,
                      State(st.submissions \o r.recs, st.validationIssues \o r.pushed),
                      mats, fs, vs)

\* processSubmissions without the two resets of lines 127-128
processSubmissions_keep(rows, st, mats, fs, vs) ==
  ProcessFrom(rows, 1, st, mats, fs, vs)

\* lines 126-136
processSubmissions(rows, st, mats, fs, vs) ==
  ProcessFrom(rows, 1, State(<<>>, <<>>), mats, fs, vs)

\* addSubmission numbering the row by the record count
addSubmission_count(submission, st, mats, fs, vs) ==
  LET r == processSubmission(submission, Len(st.submissions), mats, fs, vs)
  IN State(st.submissions \o r.recs, st.validationIssues \o r.pushed)

\* lines 386-391
addSubmission(submission, st, mats, fs, vs) ==
  LET r == processSubmission(submission, Len(st.submissions) + 1, mats, fs, vs)
  IN State(st.submissions \o r.recs, st.validationIssues \o r.pushed)

\* the merge with the spread operands swapped: { ...updates, ...old }
MergeRecord_oldWins(old, updates) ==
  [f \in DOMAIN old \cup DOMAIN updates |->
     IF f \in DOMAIN old THEN old[f] ELSE updates[f]]

\* line 396: { ...old, ...updates }
MergeRecord(old, updates) ==
  [f \in DOMAIN old \cup DOMAIN updates |->
     IF f \in DOMAIN updates THEN updates[f] ELSE old[f]]

\* lines 394-398, index 0-based
updateSubmission(index, updates, st) ==
  IF index >= 0 /\ index < Len(st.submissions)
  THEN State([st.submissions EXCEPT ![index + 1] = MergeRecord(@, updates)],
             st.validationIssues)
  ELSE st

\* clearSubmissions, called at FeeSimulator.tsx line 804
clearSubmissions(st) == State(<<>>, <<>>)

Current == State(submissions, validationIssues)

Becomes(st) ==
  /\ submissions' = st.submissions
  /\ validationIssues' = st.validationIssues
  /\ returned' = Undef

(***************************************************************************)
(* Calls of the service.                                                   *)
(***************************************************************************)
\* the rows of a batch: the rows of Rows but the second clean one
BatchRows == { r \in Rows : r.material_name # "Paper" }

Batches == UNION { [1..n -> BatchRows] : n \in 0..MaxBatch }

\* patches a caller may pass to updateSubmission
Patches ==
  { NoPatch,
    [material_name |-> "Paper", notes |-> "checked", case_size |-> N(1)] }

ProcessBatch ==
  \E rows \in Batches :
    /\ Becomes(processSubmissions(rows, Current, materials, fees, vendors))
    /\ last' = Op("processSubmissions", rows, 0, NoPatch)
    /\ UNCHANGED <<tables, wizardState, ui>>

AddRecord ==
  \E raw \in Rows :
    /\ Len(submissions) < MaxRecords
    /\ Becomes(addSubmission(raw, Current, materials, fees, vendors))
    /\ last' = Op("addSubmission", <<raw>>, 0, NoPatch)
    /\ UNCHANGED <<tables, wizardState, ui>>

UpdateRecord ==
  \E index \in (0 - 1)..(Len(submissions) + 1), updates \in Patches :
    /\ Becomes(updateSubmission(index, updates, Current))
    /\ last' = Op("updateSubmission", <<>>, index, updates)
    /\ UNCHANGED <<tables, wizardState, ui>>

ClearAll ==
  /\ Becomes(clearSubmissions(Current))
  /\ last' = Op("clearSubmissions", <<>>, 0, NoPatch)
  /\ UNCHANGED <<tables, wizardState, ui>>

Next ==
  \/ ProcessBatch
  \/ AddRecord
  \/ UpdateRecord
  \/ ClearAll

Spec == Init /\ [][Next]_vars

(***************************************************************************)
(* One call of addSubmission on an arbitrary row, with the tables loaded   *)
(* or not, followed by a clear and the next call.                          *)
(***************************************************************************)
AddAnyRow ==
  \E raw \in AllRows :
    /\ last.op # "addSubmission"
    /\ Becomes(addSubmission(raw, Current, materials, fees, vendors))
    /\ last' = Op("addSubmission", <<raw>>, 0, NoPatch)
    /\ UNCHANGED <<tables, wizardState, ui>>

NextRow == AddAnyRow \/ ClearAll

SpecRow == Init /\ [][NextRow]_vars

(***************************************************************************)
(* loadAllData. The four loads run concurrently; each ends by assigning    *)
(* its table or by throwing. The jobs that follow the end of a load (the   *)
(* settling of Promise.all, the catch, the settling of loadAllData's own   *)
(* promise) run before any other load can end, so they are part of the     *)
(* step that ends the load. A call is made when no load is in flight.      *)
(***************************************************************************)
\* lines 13-19: the four loads are started and awaited together
LoadAllData ==
  /\ \A t \in TableNames : loads[t] # "pending"
  /\ loads' = [t \in TableNames |-> "pending"]
  /\ loadPromise' = "pending"
  /\ last' = Op("loadAllData", <<>>, 0, NoPatch)
  /\ UNCHANGED <<referenceTables, wizardState, submissions, validationIssues, returned, ui>>

\* lines 27-92: a load gets its file and assigns the table
LoadSucceeds ==
  \E t \in TableNames :
    /\ loads[t] = "pending"
    /\ loads' = [loads EXCEPT ![t] = "done"]
    /\ materials' = IF t = "materials" THEN MapSeq(MaterialsCsv, MaterialOfRow) ELSE materials
    /\ fees' = IF t = "fees" THEN MapSeq(FeesCsv, FeeOfRow) ELSE fees
    /\ vendors' = IF t = "vendors" THEN MapSeq(VendorsCsv, VendorOfRow) ELSE vendors
    /\ products' = IF t = "products" THEN MapSeq(ProductsCsv, ProductOfRow) ELSE products
    \* line 15: Promise.all fulfils when the last of the four has fulfilled
    /\ loadPromise' =
         IF loadPromise = "pending" /\ \A u \in TableNames \ {t} : loads[u] = "done"
         THEN "resolved" ELSE loadPromise
    /\ last' = Op("load", <<>>, 0, NoPatch)
    /\ UNCHANGED <<wizardState, submissions, validationIssues, returned, ui>>

\* lines 28-31 (and the like): the fetch fails or the response is not ok, and
\* the load throws; lines 15 and 22-24: Promise.all rejects at the first
\* rejection, the catch logs it, and loadAllData's promise resolves
LoadFails ==
  \E t \in TableNames :
    /\ loads[t] = "pending"
    /\ loads' = [loads EXCEPT ![t] = "failed"]
    /\ loadPromise' = IF loadPromise = "pending" THEN "resolved" ELSE loadPromise
    /\ last' = Op("loadFailed", <<>>, 0, NoPatch)
    /\ UNCHANGED <<referenceTables, wizardState, submissions, validationIssues, returned, ui>>

NextLoad ==
  \/ LoadAllData
  \/ LoadSucceeds
  \/ LoadFails

SpecLoad == Init /\ [][NextLoad]_vars

(***************************************************************************)
(* The components. Each reads the service's reference tables into its own  *)
(* state when it mounts and reads the record array through getSubmissions  *)
(* (line 361), which returns the service's array itself.                   *)
(***************************************************************************)
\* the Number conversion the arithmetic operators apply to an operand; the
\* strings of the model that parseFloat reads are numerals throughout
ToNumber(j) ==
  CASE j.t = "undef" -> NaN
    [] j.t = "num" -> j.v
    [] OTHER -> IF j.s = "" THEN Zero ELSE parseFloat(j.s)

\* x || y on loosely typed values
OrVal(x, y) == IF Truthy(x) THEN x ELSE y

(***************************************************************************)
(* The queries of the service.                                             *)
(***************************************************************************)
\* the distinct values of a field over the records
Distinct(subs, field) == { subs[i][field] : i \in DOMAIN subs }

\* lines 280: the reduce; the fee_cents of the records are numbers
RECURSIVE SumFees(_, _)
SumFees(subs, i) ==
  IF i > Len(subs) THEN Zero
  ELSE Add(ToNumber(subs[i].fee_cents), SumFees(subs, i + 1))

\* getOverviewStats counting the issues of every severity
getOverviewStats_anySeverity(st) ==
  [total_vendors |-> Cardinality(Distinct(st.submissions, "vendor_id")),
   total_skus |-> Cardinality(Distinct(st.submissions, "sku_id")),
   total_fee_cents |-> SumFees(st.submissions, 1),
   rows_with_errors |-> Len(st.validationIssues),
   total_submissions |-> Len(st.submissions)]

\* lines 277-290
getOverviewStats(st) ==
  [total_vendors |-> Cardinality(Distinct(st.submissions, "vendor_id")),
   total_skus |-> Cardinality(Distinct(st.submissions, "sku_id")),
   total_fee_cents |-> SumFees(st.submissions, 1),
   rows_with_errors |->
     Len(SelectSeq(st.validationIssues, LAMBDA i : i.severity = "error")),
   total_submissions |-> Len(st.submissions)]

DefaultLimit == 10

\* lines 302-316: the summary a SKU's first record starts
NewSummary(submission, vs, ps) ==
  LET product == find(ps, LAMBDA p : p.sku_id = submission.sku_id)
      vendor == find(vs, LAMBDA v : v.vendor_id = submission.vendor_id)
      grams == ToNumber(submission.normalized_weight_grams)
      cents == ToNumber(submission.fee_cents)
  IN [sku_id |-> submission.sku_id,
      sku_name |-> IF product = <<>> THEN "Unknown" ELSE OrStr(product[1].sku_name, "Unknown"),
      vendor_id |-> submission.vendor_id,
      vendor_name |-> IF vendor = <<>> THEN "Unknown" ELSE OrStr(vendor[1].vendor_name, "Unknown"),
      total_grams |-> grams,
      fee_per_gram_cents |-> IF Gt(grams, Zero) THEN Div(cents, grams) ELSE Zero,
      sku_total_cents |-> cents,
      is_exempt |-> submission.is_exempt]

\* the forEach of getTopSkusByFee without the additions of lines 298-299: a
\* SKU's summary keeps the figures of its first record
RECURSIVE GroupBySku_firstOnly(_, _, _, _, _)
GroupBySku_firstOnly(subs, i, groups, vs, ps) ==
  IF i > Len(subs) THEN groups
  ELSE
    LET existing == findIndex(groups, LAMBDA g : g.sku_id = subs[i].sku_id)
    IN GroupBySku_firstOnly(subs, i + 1,
         IF existing >= 0 THEN groups ELSE Append(groups, NewSummary(subs[i], vs, ps)),
         vs, ps)

\* lines 295-318: the forEach from record i on; groups holds the map's values
\* in insertion order
RECURSIVE GroupBySku(_, _, _, _, _)
GroupBySku(subs, i, groups, vs, ps) ==
  IF i > Len(subs) THEN groups
  ELSE
    LET existing == findIndex(groups, LAMBDA g : g.sku_id = subs[i].sku_id)
    IN GroupBySku(subs, i + 1,
         IF existing >= 0
         THEN [groups EXCEPT
                 ![existing + 1].total_grams =
                    Add(@, ToNumber(subs[i].normalized_weight_grams)),
                 ![existing + 1].sku_total_cents =
                    Add(@, ToNumber(subs[i].fee_cents))]
         ELSE Append(groups, NewSummary(subs[i], vs, ps)),
         vs, ps)

\* line 321: the stable sort by descending sku_total_cents, as the insertion
\* of each summary after the ones that do not have less
RECURSIVE InsertByTotal(_, _, _)
InsertByTotal(sorted, g, i) ==
  IF i > Len(sorted) THEN Append(sorted, g)
  ELSE IF Gt(g.sku_total_cents, sorted[i].sku_total_cents)
  THEN SubSeq(sorted, 1, i - 1) \o << g >> \o SubSeq(sorted, i, Len(sorted))
  ELSE InsertByTotal(sorted, g, i + 1)

RECURSIVE SortByTotal(_, _, _)
SortByTotal(groups, i, sorted) ==
  IF i > Len(groups) THEN sorted
  ELSE SortByTotal(groups, i + 1, InsertByTotal(sorted, groups[i], 1))

\* line 322: slice(0, limit) for a limit that is not negative
Slice(arr, limit) == SubSeq(arr, 1, IF limit < Len(arr) THEN limit ELSE Len(arr))

\* getTopSkusByFee without the sort of line 321
getTopSkusByFee_unsorted(limit, st, vs, ps) ==
  Slice(GroupBySku(st.submissions, 1, <<>>, vs, ps), limit)

\* lines 292-323
getTopSkusByFee(limit, st, vs, ps) ==
  Slice(SortByTotal(GroupBySku(st.submissions, 1, <<>>, vs, ps), 1, <<>>), limit)

\* lines 340-347: the summary a vendor's first record starts
NewVendorSummary(submission, vs) ==
  LET vendor == find(vs, LAMBDA v : v.vendor_id = submission.vendor_id)
  IN [vendor_id |-> submission.vendor_id,
      vendor_name |-> IF vendor = <<>> THEN "Unknown" ELSE OrStr(vendor[1].vendor_name, "Unknown"),
      total_fee_cents |-> ToNumber(submission.fee_cents),
      total_grams |-> ToNumber(submission.normalized_weight_grams),
      sku_ids |-> << submission.sku_id >>,
      is_exempt |-> submission.is_exempt]

\* the push of line 332 without the includes test of line 331
PushIfAbsent_always(sku_ids, sku) == Append(sku_ids, sku)

\* lines 331-333: includes, then push
PushIfAbsent(sku_ids, sku) ==
  IF \E k \in DOMAIN sku_ids : sku_ids[k] = sku THEN sku_ids ELSE Append(sku_ids, sku)

\* lines 328-349: the forEach from record i on; groups holds the map's values
\* in insertion order
RECURSIVE GroupByVendor(_, _, _, _)
GroupByVendor(subs, i, groups, vs) ==
  IF i > Len(subs) THEN groups
  ELSE
    LET existing == findIndex(groups, LAMBDA g : g.vendor_id = subs[i].vendor_id)
    IN GroupByVendor(subs, i + 1,
         IF existing >= 0
         THEN [groups EXCEPT
                 ![existing + 1].total_fee_cents =
                    Add(@, ToNumber(subs[i].fee_cents)),
                 ![existing + 1].total_grams =
                    Add(@, ToNumber(subs[i].normalized_weight_grams)),
                 ![existing + 1].sku_ids = PushIfAbsent(@, subs[i].sku_id)]
         ELSE Append(groups, NewVendorSummary(subs[i], vs)),
         vs)

\* lines 351-358: the entry returned for a vendor
VendorTotal(vendor) ==
  [vendor_id |-> vendor.vendor_id,
   vendor_name |-> vendor.vendor_name,
   total_fee_cents |-> vendor.total_fee_cents,
   total_grams |-> vendor.total_grams,
   sku_count |-> Len(vendor.sku_ids),
   is_exempt |-> vendor.is_exempt]

\* line 358: the stable sort by descending total_fee_cents
RECURSIVE InsertByFee(_, _, _)
InsertByFee(sorted, v, i) ==
  IF i > Len(sorted) THEN Append(sorted, v)
  ELSE IF Gt(v.total_fee_cents, sorted[i].total_fee_cents)
  THEN SubSeq(sorted, 1, i - 1) \o << v >> \o SubSeq(sorted, i, Len(sorted))
  ELSE InsertByFee(sorted, v, i + 1)

RECURSIVE SortByFee(_, _, _)
SortByFee(groups, i, sorted) ==
  IF i > Len(groups) THEN sorted
  ELSE SortByFee(groups, i + 1, InsertByFee(sorted, VendorTotal(groups[i]), 1))

\* lines 325-359
getVendorTotals(st, vs) ==
  SortByFee(GroupByVendor(st.submissions, 1, <<>>, vs), 1, <<>>)

(***************************************************************************)
(* Calls of the three aggregations, between the calls that change the      *)
(* collections.                                                            *)
(***************************************************************************)
\* the limits getTopSkusByFee is asked with: none, one, two, and the default
Limits == {0, 1, 2, DefaultLimit}

\* the records after a grouping whose map entry is the first record of the
\* group itself, so that line 299 adds to that record's fee_cents
RecordsAfterGrouping_aliased(subs) ==
  [i \in DOMAIN subs |->
     IF \E j \in 1..(i - 1) : subs[j].sku_id = subs[i].sku_id
     THEN subs[i]
     ELSE [subs[i] EXCEPT !.fee_cents =
             SumFees(SelectSeq(subs, LAMBDA r : r.sku_id = subs[i].sku_id), 1)]]

\* lines 295-318 and 328-349: the records after the forEach. The writes of
\* lines 297-299 and 329-333 go to existing, an entry of the call's own map
\* that the object literals of lines 306-317 and 340-347 created; a record is
\* only read
RecordsAfterGrouping(subs) == subs

\* lines 277-290: reads only
GetOverviewStats ==
  /\ returned' = getOverviewStats(Current)
  /\ last' = Op("getOverviewStats", <<>>, 0, NoPatch)
  /\ UNCHANGED <<tables, wizardState, submissions, validationIssues, ui>>

GetTopSkusByFee ==
  \E limit \in Limits :
    /\ returned' = getTopSkusByFee(limit, Current, vendors, products)
    /\ last' = Op("getTopSkusByFee", <<>>, limit, NoPatch)
    /\ submissions' = RecordsAfterGrouping(submissions)
    /\ UNCHANGED <<tables, wizardState, validationIssues, ui>>

GetVendorTotals ==
  /\ returned' = getVendorTotals(Current, vendors)
  /\ last' = Op("getVendorTotals", <<>>, 0, NoPatch)
  /\ submissions' = RecordsAfterGrouping(submissions)
  /\ UNCHANGED <<tables, wizardState, validationIssues, ui>>

NextQuery ==
  \/ ProcessBatch
  \/ AddRecord
  \/ UpdateRecord
  \/ ClearAll
  \/ GetOverviewStats
  \/ GetTopSkusByFee
  \/ GetVendorTotals

SpecQuery == Init /\ [][NextQuery]_vars

\* the rows typed into the manual form of VendorSubmission (weight_value and
\* case_size come from parseFloat and parseInt of the inputs): a unit row, a
\* case row, and a row the form refuses
FormRows ==
  { Row("V1", "S1", "PET", "Plastic", N(10), "grams", "unit", Undef),
    Row("V2", "S2", "Paper", "Fiber", N(240), "ounces", "case", N(12)),
    Row("V1", "S1", "PET", "Plastic", N(0), "grams", "unit", Undef) }

\* FeeSimulator.tsx lines 714-742
FormComplete(submission) ==
  /\ submission.vendor_id # ""
  /\ submission.sku_id # ""
  /\ submission.material_name # ""
  /\ Truthy(submission.weight_value)

handleManualSubmissionSubmit(submission, st, mats, fs, vs) ==
  IF FormComplete(submission) THEN addSubmission(submission, st, mats, fs, vs) ELSE st

HandleManualSubmissionSubmit ==
  \E submission \in FormRows :
    /\ Len(submissions) < MaxRecords
    /\ Becomes(handleManualSubmissionSubmit(submission, Current, materials, fees, vendors))
    /\ last' = Op("handleManualSubmissionSubmit", <<submission>>, 0, NoPatch)
    /\ UNCHANGED <<tables, wizardState, ui>>

(***************************************************************************)
(* AdminReview                                                             *)
(***************************************************************************)
EditableFields ==
  {"vendor_id", "sku_id", "component", "material_name", "material_category",
   "weight_value", "weight_unit", "quantity_basis", "case_size", "notes"}

\* the key of a row in the table: sku_id + material_name
RowKey(s) == s.sku_id \o s.material_name

\* lines 56-70
HandleEdit ==
  \E i \in DOMAIN submissions :
    /\ editingId' = RowKey(submissions[i])
    /\ editForm' = [f \in EditableFields |-> submissions[i][f]]
    /\ last' = Op("handleEdit", <<>>, i - 1, NoPatch)
    /\ UNCHANGED <<tables, wizardState, returned, submissions, validationIssues, simulatorState, uploadState, edits>>

\* the material select of the row being edited: its options are the
\* materials, and the category follows the chosen one
EditMaterial ==
  \E i \in DOMAIN materials :
    /\ editingId # ""
    /\ editForm' = MergeRecord(editForm,
                     [material_name |-> materials[i].material_name,
                      material_category |-> OrStr(materials[i].category_group, "")])
    /\ edits < MaxEdits
    /\ edits' = edits + 1
    /\ last' = Op("editMaterial", <<>>, i - 1, NoPatch)
    /\ UNCHANGED <<tables, wizardState, returned, submissions, validationIssues, editingId,
                   simulatorState, uploadState>>

\* the weight input of the row being edited: parseFloat of the text
WeightInputs == {"", "-5"}

EditWeight ==
  \E text \in WeightInputs :
    /\ editingId # ""
    /\ editForm' = MergeRecord(editForm, [weight_value |-> NumV(parseFloat(text))])
    /\ edits < MaxEdits
    /\ edits' = edits + 1
    /\ last' = Op("editWeight", <<>>, 0, NoPatch)
    /\ UNCHANGED <<tables, wizardState, returned, submissions, validationIssues, editingId,
                   simulatorState, uploadState>>

\* lines 72-105: the guard of handleSave
CanSave ==
  /\ editingId # ""
  /\ {"vendor_id", "sku_id", "material_name"} \subseteq DOMAIN editForm
  /\ editForm.vendor_id # ""
  /\ editForm.sku_id # ""
  /\ editForm.material_name # ""

\* lines 81-88: the computed fields handleSave writes
Recalculated ==
  [normalized_weight_grams |-> NumV(Zero), fee_cents |-> NumV(Zero),
   is_exempt |-> FALSE, fee_rate_cents_per_gram |-> NumV(Zero),
   eco_modulation_discount |-> NumV(Zero)]

handleSave(st) ==
  LET submissionIndex ==
        findIndex(st.submissions, LAMBDA s : RowKey(s) = editingId)
  IN IF CanSave /\ submissionIndex >= 0
     THEN updateSubmission(submissionIndex, MergeRecord(editForm, Recalculated), st)
     ELSE st

\* the edit ends only when the row was found and written (lines 95-97)
HandleSave ==
  LET saved ==
        CanSave /\ findIndex(submissions, LAMBDA s : RowKey(s) = editingId) >= 0
  IN /\ Becomes(handleSave(Current))
     /\ editingId' = IF saved THEN "" ELSE editingId
     /\ editForm' = IF saved THEN NoPatch ELSE editForm
     /\ last' = Op("handleSave", <<>>,
                   findIndex(submissions, LAMBDA s : RowKey(s) = editingId), editForm)
     /\ UNCHANGED <<tables, wizardState, simulatorState, uploadState, edits>>

\* lines 107-110
HandleCancel ==
  /\ editingId' = ""
  /\ editForm' = NoPatch
  /\ last' = Op("handleCancel", <<>>, 0, NoPatch)
  /\ UNCHANGED <<tables, wizardState, returned, submissions, validationIssues, simulatorState, uploadState, edits>>

NextAdmin ==
  \/ HandleManualSubmissionSubmit
  \/ HandleEdit
  \/ EditMaterial
  \/ EditWeight
  \/ HandleSave
  \/ HandleCancel

SpecAdmin == Init /\ [][NextAdmin]_vars

(***************************************************************************)
(* FeeSimulator                                                            *)
(***************************************************************************)
\* lines 62-71
handleSubmissionSelect(submission) ==
  [newMaterial |-> submission.material_name,
   newWeight |-> submission.weight_value,
   newWeightUnit |-> submission.weight_unit,
   newCaseSize |-> OrVal(submission.case_size, NumV(One))]

HandleSubmissionSelect ==
  \E i \in DOMAIN submissions :
    /\ selectedSubmission' = << submissions[i] >>
    /\ simulationParams' = handleSubmissionSelect(submissions[i])
    /\ simulationResults' = <<>>
    /\ last' = Op("handleSubmissionSelect", <<>>, i - 1, NoPatch)
    /\ UNCHANGED <<tables, wizardState, returned, submissions, validationIssues, adminState, uploadState, edits>>

\* lines 268-316: the four inputs of the parameter form, shown while a record
\* is selected, the case size only for a record whose basis is 'case'
ChangeMaterial ==
  \E i \in DOMAIN materials :
    /\ selectedSubmission # <<>>
    /\ simulationParams' =
         [simulationParams EXCEPT !.newMaterial = materials[i].material_name]
    /\ edits < MaxEdits
    /\ edits' = edits + 1
    /\ last' = Op("changeMaterial", <<>>, i - 1, NoPatch)
    /\ UNCHANGED <<tables, wizardState, returned, submissions, validationIssues, adminState,
                   selectedSubmission, simulationResults, uploadState>>

ChangeWeight ==
  \E text \in WeightInputs :
    /\ selectedSubmission # <<>>
    /\ simulationParams' =
         [simulationParams EXCEPT !.newWeight = NumV(parseFloat(text))]
    /\ edits < MaxEdits
    /\ edits' = edits + 1
    /\ last' = Op("changeWeight", <<>>, 0, NoPatch)
    /\ UNCHANGED <<tables, wizardState, returned, submissions, validationIssues, adminState,
                   selectedSubmission, simulationResults, uploadState>>

SimulatorUnits == {"grams", "ounces", "pounds"}

ChangeWeightUnit ==
  \E unit \in SimulatorUnits :
    /\ selectedSubmission # <<>>
    /\ simulationParams' = [simulationParams EXCEPT !.newWeightUnit = unit]
    /\ edits < MaxEdits
    /\ edits' = edits + 1
    /\ last' = Op("changeWeightUnit", <<>>, 0, NoPatch)
    /\ UNCHANGED <<tables, wizardState, returned, submissions, validationIssues, adminState,
                   selectedSubmission, simulationResults, uploadState>>

CaseSizeInputs == {"0", "12"}

ChangeCaseSize ==
  \E text \in CaseSizeInputs :
    /\ selectedSubmission # <<>>
    /\ selectedSubmission[1].quantity_basis = "case"
    /\ simulationParams' =
         [simulationParams EXCEPT !.newCaseSize = NumV(parseInt(text))]
    /\ edits < MaxEdits
    /\ edits' = edits + 1
    /\ last' = Op("changeCaseSize", <<>>, 0, NoPatch)
    /\ UNCHANGED <<tables, wizardState, returned, submissions, validationIssues, adminState,
                   selectedSubmission, simulationResults, uploadState>>

\* lines 76-82: the material and the fee entry of exactly the chosen name
SimulatorFindsMaterial(mats, fs, name) ==
  /\ find(mats, LAMBDA m : m.material_name = name) # <<>>
  /\ find(fs, LAMBDA f : f.material_name = name) # <<>>

\* lines 84-95: the simulated weight, converted for 'ounces' and 'pounds'
\* only and divided by the case size for every record whose basis is 'case'
SimulatedWeight(selected, params) ==
  LET converted ==
        IF params.newWeightUnit = "ounces"
        THEN NumV(Mul(ToNumber(params.newWeight), OuncesToGrams))
        ELSE IF params.newWeightUnit = "pounds"
        THEN NumV(Mul(ToNumber(params.newWeight), PoundsToGrams))
        ELSE params.newWeight
  IN IF selected.quantity_basis = "case"
     THEN NumV(Div(ToNumber(converted), ToNumber(params.newCaseSize)))
     ELSE converted

\* lines 84-125: the results of a simulation whose material was found
runSimulation(selected, params, fs) ==
  LET newFee == find(fs, LAMBDA f : f.material_name = params.newMaterial)[1]
      newWeightGrams == SimulatedWeight(selected, params)
      ecoDiscount == ToNumber(OrVal(newFee.eco_modulation_discount, NumV(Zero)))
      newFeeCents == Mul(Mul(ToNumber(newWeightGrams), newFee.fee_cents_per_gram),
                         Sub(One, ecoDiscount))
      currentFee == ToNumber(selected.fee_cents)
      feeDifference == Sub(newFeeCents, currentFee)
  IN [current |->
        [material |-> selected.material_name,
         weight |-> selected.normalized_weight_grams,
         fee |-> selected.fee_cents,
         feeRate |-> selected.fee_rate_cents_per_gram,
         ecoDiscount |-> selected.eco_modulation_discount],
      simulated |->
        [material |-> params.newMaterial,
         weight |-> newWeightGrams,
         fee |-> NumV(newFeeCents),
         feeRate |-> NumV(newFee.fee_cents_per_gram),
         ecoDiscount |-> NumV(ecoDiscount)],
      comparison |->
        [feeDifference |-> feeDifference,
         percentageChange |->
           IF Gt(currentFee, Zero)
           THEN Mul(Div(feeDifference, currentFee), Int2Num(100)) ELSE Zero,
         weightDifference |->
           Sub(ToNumber(newWeightGrams), ToNumber(selected.normalized_weight_grams))]]

\* lines 73-126
RunSimulation ==
  /\ selectedSubmission # <<>>
  /\ simulationResults' =
       IF SimulatorFindsMaterial(materials, fees, simulationParams.newMaterial)
       THEN << runSimulation(selectedSubmission[1], simulationParams, fees) >>
       ELSE simulationResults
  /\ last' = Op("runSimulation", <<>>, 0, NoPatch)
  /\ UNCHANGED <<tables, wizardState, returned, submissions, validationIssues, adminState,
                 selectedSubmission, simulationParams, uploadState, edits>>

\* lines 132-143
UpdatedSubmission(selected, params, results, mats) ==
  LET material == find(mats, LAMBDA m : m.material_name = params.newMaterial)
  IN MergeRecord(selected,
       [material_name |-> params.newMaterial,
        material_category |->
          IF material = <<>> THEN "" ELSE OrStr(material[1].category_group, ""),
        weight_value |-> params.newWeight,
        weight_unit |-> params.newWeightUnit,
        case_size |-> params.newCaseSize,
        normalized_weight_grams |-> results.simulated.weight,
        fee_cents |-> results.simulated.fee,
        fee_rate_cents_per_gram |-> results.simulated.feeRate,
        eco_modulation_discount |-> results.simulated.ecoDiscount])

\* lines 128-152: the write of saveSubmissionEdit
saveSubmissionEdit(selected, params, results, mats, st) ==
  LET submissionIndex ==
        findIndex(st.submissions,
                  LAMBDA s : s.sku_id = selected.sku_id
                             /\ s.material_name = selected.material_name)
  IN IF submissionIndex >= 0
     THEN updateSubmission(submissionIndex,
                           UpdatedSubmission(selected, params, results, mats), st)
     ELSE st

\* lines 128-165
SaveSubmissionEdit ==
  /\ selectedSubmission # <<>>
  /\ simulationResults # <<>>
  /\ Becomes(saveSubmissionEdit(selectedSubmission[1], simulationParams,
                                simulationResults[1], materials, Current))
  /\ selectedSubmission' = <<>>
  /\ simulationResults' = <<>>
  /\ last' = Op("saveSubmissionEdit", <<>>, 0, NoPatch)
  /\ UNCHANGED <<tables, wizardState, adminState, simulationParams, uploadState, edits>>

NextSim ==
  \/ HandleManualSubmissionSubmit
  \/ HandleSubmissionSelect
  \/ ChangeMaterial
  \/ ChangeWeight
  \/ ChangeWeightUnit
  \/ ChangeCaseSize
  \/ RunSimulation
  \/ SaveSubmissionEdit

SpecSim == Init /\ [][NextSim]_vars

(***************************************************************************)
(* VendorSubmission: file upload, validation and bulk submit               *)
(***************************************************************************)
\* the rows Papa.parse returns for the uploaded files: every cell a string
CsvClean == Row("V1", "S1", "PET", "Plastic", Str("12"), "g", "unit", Str(""))

CsvBlank == [Row("", "", "", "", Str(""), "", "", Str("")) EXCEPT !.component = ""]

CsvUnknownMaterial ==
  Row("V2", "S2", "Cardboard", "Fiber", Str("240"), "OZ", "case", Str("12"))

CsvNoUnit == Row("V1", "S1", "PET", "Plastic", Str("12"), "", "unit", Str(""))

\* the files a user can select: two CSV files, the first with a blank line
\* after its row, the second with a row whose weight_unit cell is empty, and
\* a file of another extension
Files ==
  { [name |-> "a.csv", csv |-> TRUE, rows |-> << CsvClean, CsvBlank >>],
    [name |-> "b.csv", csv |-> TRUE, rows |-> << CsvUnknownMaterial, CsvNoUnit >>],
    [name |-> "notes.txt", csv |-> FALSE, rows |-> << CsvClean >>] }

\* the selections of up to MaxFiles different files, in any order
Selections ==
  { sel \in UNION { [1..n -> Files] : n \in 1..MaxFiles } :
      \A i, j \in DOMAIN sel : i # j => sel[i] # sel[j] }

\* lines 521-525: a parsed row with its file's name and 0-based index
FileRow(row, name, index) ==
  [f \in DOMAIN row \cup {"source_file", "file_index"} |->
     CASE f = "source_file" -> name
       [] f = "file_index" -> index
       [] OTHER -> row[f]]

\* lines 507-525: the rows one file contributes
ParsedRows(file, index) ==
  IF file.csv
  THEN [k \in 1..Len(file.rows) |-> FileRow(file.rows[k], file.name, index)]
  ELSE <<>>

\* parseFloat and parseInt of a cell or a typed value (the numbers of the
\* model that reach parseInt are integers)
ParseFloatVal(j) ==
  CASE j.t = "undef" -> NaN
    [] j.t = "num" -> j.v
    [] OTHER -> parseFloat(j.s)

ParseIntVal(j) ==
  CASE j.t = "undef" -> NaN
    [] j.t = "num" -> j.v
    [] OTHER -> parseInt(j.s)

\* lines 555-559: the rows validateFileData keeps (the third conjunct holds
\* for every row, whose source_file is never blank)
KeepRow(row) ==
  \/ row.vendor_id # ""
  \/ row.sku_id # ""
  \/ row.material_name # ""
  \/ Truthy(row.weight_value)

SupportedUnits == {"grams", "g", "ounces", "oz", "pounds", "lbs"}

HighWeightGrams == 300
LowWeightGrams == Fin(1, 10)

\* lines 629-677: weight, unit and case checks of one row
WeightCheck(row, feeRate, ecoDiscount) ==
  LET weightValue == ParseFloatVal(row.weight_value)
      unit == toLowerCase(row.weight_unit)
      converted ==
        IF row.weight_unit = "" THEN weightValue
        ELSE IF unit \in {"ounces", "oz"} THEN Mul(weightValue, OuncesToGrams)
        ELSE IF unit \in {"pounds", "lbs"} THEN Mul(weightValue, PoundsToGrams)
        ELSE weightValue
      unitIssue ==
        IF row.weight_unit # "" /\ unit \notin SupportedUnits
        THEN << "Invalid weight unit" >> ELSE <<>>
      byCase == row.quantity_basis = "case" /\ Truthy(row.case_size)
      caseSize == ParseIntVal(row.case_size)
      normalizedWeight ==
        IF byCase /\ Gt(caseSize, Zero) THEN Div(converted, caseSize) ELSE converted
      caseIssue ==
        IF byCase /\ ~Gt(caseSize, Zero)
        THEN << "Case size must be greater than 0" >> ELSE <<>>
  IN IF ~Truthy(row.weight_value) \/ isNaN(weightValue)
     THEN [issues |-> << "Missing or invalid weight_value" >>, warnings |-> <<>>,
           grams |-> Zero, fee |-> Zero]
     ELSE IF Le(weightValue, Zero)
     THEN [issues |-> << "Weight value must be greater than 0" >>, warnings |-> <<>>,
           grams |-> Zero, fee |-> Zero]
     ELSE [issues |-> unitIssue \o caseIssue,
           warnings |->
             (IF Gt(normalizedWeight, Int2Num(HighWeightGrams))
              THEN << "Unusually high weight" >> ELSE <<>>)
             \o (IF Gt(LowWeightGrams, normalizedWeight)
                 THEN << "Very low weight" >> ELSE <<>>),
           grams |-> normalizedWeight,
           fee |-> IF Gt(feeRate, Zero)
                   THEN Mul(Mul(normalizedWeight, feeRate),
                            Sub(One, Div(ecoDiscount, Int2Num(100))))
                   ELSE Zero]

\* lines 561-705: the result for one kept row, index 0-based. The warnings
\* for notes over 500 characters and for a material name containing
\* 'product' concern rows the model does not hold.
ValidateRow(row, index, mats, fs, vs, ps) ==
  LET vendor == find(vs, LAMBDA v : v.vendor_id = row.vendor_id)
      product == find(ps, LAMBDA p : p.sku_id = row.sku_id)
      material ==
        find(mats, LAMBDA m : toLowerCase(m.material_name) = toLowerCase(row.material_name))
      fee ==
        IF material = <<>> THEN <<>>
        ELSE find(fs, LAMBDA f : toLowerCase(f.material_name) = toLowerCase(row.material_name))
      feeRate == IF fee = <<>> THEN Zero ELSE fee[1].fee_cents_per_gram
      ecoDiscount ==
        IF fee = <<>> THEN Zero
        ELSE ToNumber(OrVal(fee[1].eco_modulation_discount, NumV(Zero)))
      weight == WeightCheck(row, feeRate, ecoDiscount)
      issues ==
        (IF row.vendor_id = "" THEN << "Missing vendor_id" >>
         ELSE IF vendor = <<>> THEN << "Invalid vendor_id" >> ELSE <<>>)
        \o (IF row.sku_id = "" THEN << "Missing sku_id" >>
            ELSE IF product = <<>> THEN << "Invalid sku_id" >> ELSE <<>>)
        \o (IF row.material_name = "" THEN << "Missing material_name" >>
            ELSE IF material = <<>> THEN << "Invalid material" >>
            ELSE IF row.material_category # ""
                    /\ material[1].category_group # row.material_category
            THEN << "Category mismatch" >> ELSE <<>>)
        \o weight.issues
        \o (IF row.weight_unit # "" /\ toLowerCase(row.weight_unit) \notin SupportedUnits
            THEN << "Unsupported weight unit" >> ELSE <<>>)
  IN [row |-> index + 1,
      originalData |-> row,
      details |->
        [vendor_name |-> IF vendor = <<>> THEN "Unknown" ELSE vendor[1].vendor_name,
         sku_name |-> IF product = <<>> THEN "Unknown" ELSE product[1].sku_name,
         is_exempt |-> vendor # <<>> /\ vendor[1].exempt,
         normalized_weight_grams |-> weight.grams,
         fee_cents_per_gram |-> feeRate,
         eco_modulation_discount |-> ecoDiscount,
         calculated_fee_cents |-> weight.fee],
      issues |-> issues,
      warnings |-> weight.warnings,
      severity |-> IF issues # <<>> THEN "error"
                   ELSE IF weight.warnings # <<>> THEN "warning" ELSE "success",
      isValid |-> issues = <<>>,
      eprCompliant |-> issues = <<>> /\ weight.warnings = <<>>]

\* lines 553-708
validateFileData(data, mats, fs, vs, ps) ==
  LET validRows == SelectSeq(data, KeepRow)
  IN [k \in 1..Len(validRows) |-> ValidateRow(validRows[k], k - 1, mats, fs, vs, ps)]

\* lines 496-501 and 548-550: a selection starts one read per file; a new
\* selection is made when the reads of the previous one have completed
HandleFileUpload ==
  \E files \in Selections :
    /\ pendingReads = {}
    /\ uploadFiles' = files
    /\ allData' = <<>>
    /\ pendingReads' = 0..(Len(files) - 1)
    /\ last' = Op("handleFileUpload", <<>>, Len(files), NoPatch)
    /\ UNCHANGED <<tables, wizardState, returned, submissions, validationIssues, adminState, simulatorState,
                   fileData, validationResults, edits>>

\* lines 505-538: a read completes, in whatever order the reads finish; the
\* read of the last file of the selection publishes what has arrived
ReaderOnload ==
  \E index \in pendingReads :
    LET arrived == allData \o ParsedRows(uploadFiles[index + 1], index)
        isLast == index = Len(uploadFiles) - 1
    IN /\ pendingReads' = pendingReads \ {index}
       /\ allData' = arrived
       /\ fileData' = IF isLast THEN arrived ELSE fileData
       /\ validationResults' =
            IF isLast
            THEN validateFileData(arrived, materials, fees, vendors, products)
            ELSE validationResults
       /\ last' = Op("onload", <<>>, index, NoPatch)
       /\ UNCHANGED <<tables, wizardState, returned, submissions, validationIssues, adminState, simulatorState,
                      uploadFiles, edits>>

\* lines 794-796: the rows whose result at the same position is not an error
RECURSIVE DataToSubmit(_, _, _)
DataToSubmit(data, results, i) ==
  IF i > Len(data) THEN <<>>
  ELSE (IF i <= Len(results) /\ results[i].severity = "error" THEN <<>> ELSE << data[i] >>)
       \o DataToSubmit(data, results, i + 1)

\* lines 807-809
RECURSIVE AddAll(_, _, _, _, _, _)
AddAll(rows, i, st, mats, fs, vs) ==
  IF i > Len(rows) THEN st
  ELSE AddAll(rows, i + 1, addSubmission(rows[i], st, mats, fs, vs), mats, fs, vs)

\* handleBulkSubmit without the clear of line 804
handleBulkSubmit_noClear(data, results, st, mats, fs, vs) ==
  LET dataToSubmit == DataToSubmit(data, results, 1)
  IN IF dataToSubmit = <<>> THEN st
     ELSE AddAll(dataToSubmit, 1, st, mats, fs, vs)

\* lines 792-818
handleBulkSubmit(data, results, st, mats, fs, vs) ==
  LET dataToSubmit == DataToSubmit(data, results, 1)
  IN IF dataToSubmit = <<>> THEN st
     ELSE AddAll(dataToSubmit, 1, clearSubmissions(st), mats, fs, vs)

\* last records the rows submitted and the record count before the call
HandleBulkSubmit ==
  /\ Becomes(handleBulkSubmit(fileData, validationResults, Current,
                              materials, fees, vendors))
  /\ last' = Op("handleBulkSubmit", DataToSubmit(fileData, validationResults, 1),
                Len(submissions), NoPatch)
  /\ UNCHANGED <<tables, wizardState, ui>>

NextBulk ==
  \/ HandleManualSubmissionSubmit
  \/ HandleFileUpload
  \/ ReaderOnload
  \/ HandleBulkSubmit
  \/ ClearAll

SpecBulk == Init /\ [][NextBulk]_vars

(***************************************************************************)
(* WorkflowWizard. It shows the component of the current step and hands it *)
(* onComplete and onDataUpdate. The upload step completes by a submission  *)
(* of the manual form; the Continue buttons of the review and simulation   *)
(* steps are taken as enabled whenever their step is shown, which allows   *)
(* every completion the application allows.                                *)
(***************************************************************************)
\* lines 95-126: the ids of the four steps
StepIds == << "filesUploaded", "reviewCompleted", "simulationDone", "dashboard" >>

\* lines 101, 108, 115, 122: the completed flag of the step at a 0-based index
StepCompleted(data, stepIndex) ==
  CASE stepIndex = 0 -> data.filesUploaded
    [] stepIndex = 1 -> data.reviewCompleted
    [] OTHER -> data.simulationDone

\* lines 49-55
updateDashboardData(st, vs, ps) ==
  [stats |-> << getOverviewStats(st) >>,
   topSkus |-> getTopSkusByFee(DefaultLimit, st, vs, ps),
   vendorTotals |-> getVendorTotals(st, vs)]

\* lines 57-71: the wizard after onComplete of the step shown, st being the
\* state of the service at the call
handleStepComplete(step, data, dashboard, st, vs, ps) ==
  LET stepId == StepIds[step + 1]
  IN [currentStep |-> step + 1,
      workflowData |->
        [k \in DOMAIN data \cup {stepId} |-> IF k = stepId THEN TRUE ELSE data[k]],
      dashboardData |->
        IF stepId \in {"filesUploaded", "reviewCompleted"}
        THEN updateDashboardData(st, vs, ps) ELSE dashboard]

\* canProceedFromCurrentStep without the exception of line 92 for the upload
\* step
canProceedFromCurrentStep_fromUpload(step) == step < Len(StepIds) - 1

\* lines 91-94: whether the Next Step button is shown
canProceedFromCurrentStep(step) ==
  IF step = 0 THEN FALSE ELSE step < Len(StepIds) - 1

\* lines 41-47 and 160: the figures are read again, after the initial load
\* and when a component reports a change of the data
UpdateDashboardData ==
  /\ dashboardData' = updateDashboardData(Current, vendors, products)
  /\ last' = Op("updateDashboardData", <<>>, 0, NoPatch)
  /\ UNCHANGED <<tables, returned, submissions, validationIssues, ui,
                 currentStep, workflowData>>

\* FeeSimulator.tsx lines 714-742 under the wizard: a complete form is
\* submitted, onComplete advances the wizard and onDataUpdate reads the
\* figures again; an incomplete form is refused
SubmitAndContinue ==
  \E submission \in FormRows :
    /\ currentStep = 0
    /\ Len(submissions) < MaxRecords
    /\ \A after \in {handleManualSubmissionSubmit(submission, Current,
                                                   materials, fees, vendors)} :
         /\ Becomes(after)
         /\ IF FormComplete(submission)
            THEN \A w \in {handleStepComplete(currentStep, workflowData, dashboardData,
                                              after, vendors, products)} :
                   /\ currentStep' = w.currentStep
                   /\ workflowData' = w.workflowData
                   /\ dashboardData' = updateDashboardData(after, vendors, products)
            ELSE UNCHANGED wizardState
    /\ last' = Op("handleManualSubmissionSubmit", << submission >>, 0, NoPatch)
    /\ UNCHANGED <<tables, ui>>

\* part_001 lines 125-129 and FeeSimulator.tsx lines 167-171: the Continue
\* button of the review step or of the simulation step
HandleComplete ==
  /\ currentStep \in {1, 2}
  /\ \A w \in {handleStepComplete(currentStep, workflowData, dashboardData,
                                  Current, vendors, products)} :
       /\ currentStep' = w.currentStep
       /\ workflowData' = w.workflowData
       /\ dashboardData' = w.dashboardData
  /\ last' = Op("handleStepComplete", <<>>, currentStep, NoPatch)
  /\ UNCHANGED <<tables, returned, submissions, validationIssues, ui>>

\* lines 73-77, behind the button of lines 174-178
HandleNextStep ==
  /\ canProceedFromCurrentStep(currentStep)
  /\ currentStep' = IF currentStep < Len(StepIds) - 1 THEN currentStep + 1 ELSE currentStep
  /\ last' = Op("handleNextStep", <<>>, currentStep, NoPatch)
  /\ UNCHANGED <<tables, returned, submissions, validationIssues, ui,
                 workflowData, dashboardData>>

\* lines 79-83, behind the button of lines 168-172
HandlePreviousStep ==
  /\ currentStep > 0
  /\ currentStep' = currentStep - 1
  /\ last' = Op("handlePreviousStep", <<>>, currentStep, NoPatch)
  /\ UNCHANGED <<tables, returned, submissions, validationIssues, ui,
                 workflowData, dashboardData>>

\* lines 85-89: a click on a step of the progress bar
HandleStepClick ==
  \E stepIndex \in 0..(Len(StepIds) - 1) :
    /\ currentStep' =
         IF stepIndex <= currentStep \/ StepCompleted(workflowData, stepIndex)
         THEN stepIndex ELSE currentStep
    /\ last' = Op("handleStepClick", <<>>, stepIndex, NoPatch)
    /\ UNCHANGED <<tables, returned, submissions, validationIssues, ui,
                   workflowData, dashboardData>>

NextWizard ==
  \/ UpdateDashboardData
  \/ SubmitAndContinue
  \/ HandleComplete
  \/ HandleNextStep
  \/ HandlePreviousStep
  \/ HandleStepClick

SpecWizard == Init /\ [][NextWizard]_vars

(***************************************************************************)
(* Properties. A step is recognised by the operation recorded in last'.    *)
(***************************************************************************)
IsPrefix(a, b) == Len(a) <= Len(b) /\ SubSeq(b, 1, Len(a)) = a

\* the issues the step appended
NewIssues == SubSeq(validationIssues', Len(validationIssues) + 1, Len(validationIssues'))

Added == last'.op = "addSubmission"
Updated == last'.op = "updateSubmission"
Batched == last'.op = "processSubmissions"

\* the record the step appended
NewRecord == submissions'[Len(submissions')]

AppendedOne == Len(submissions') = Len(submissions) + 1

\* grams * fee_cents_per_gram * (1 - discount), an absent discount being 0
FeeProduct(rec, feeInfo) ==
  Mul(Mul(rec.normalized_weight_grams.v, feeInfo.fee_cents_per_gram),
      Sub(One, IF feeInfo.eco_modulation_discount.t = "num"
               THEN feeInfo.eco_modulation_discount.v ELSE Zero))

NoFeeFields(rec) ==
  /\ rec.fee_cents = NumV(Zero)
  /\ rec.fee_rate_cents_per_gram = NumV(Zero)
  /\ rec.eco_modulation_discount = NumV(Zero)

\* C1 as stated: a processed row whose material has a fee entry gets
\* fee_cents = grams * rate * (1 - discount); a row whose material has no fee
\* entry gets fee, rate and discount 0.
C1_AsStated ==
  [][Added /\ ~HardRejected(last'.rows[1]) =>
       /\ AppendedOne
       /\ LET material == FindMaterial(materials, last'.rows[1].material_name)
              feeInfo == IF material = <<>> THEN <<>> ELSE FindFee(fees, material[1])
          IN /\ material # <<>> /\ feeInfo # <<>> =>
                  NewRecord.fee_cents = NumV(FeeProduct(NewRecord, feeInfo[1]))
             /\ material # <<>> /\ feeInfo = <<>> => NoFeeFields(NewRecord)]_vars

\* C1 (amended): a processed row whose material has a fee entry gets
\* fee_cents = grams * rate * (1 - discount) when that product is finite and
\* fee_cents = 0 when it is not; rate and discount are those of the entry, an
\* absent discount being 0. A row whose material has no fee entry gets fee,
\* rate and discount 0.
C1_FeeFormula ==
  [][Added /\ ~HardRejected(last'.rows[1]) =>
       /\ AppendedOne
       /\ LET material == FindMaterial(materials, last'.rows[1].material_name)
              feeInfo == IF material = <<>> THEN <<>> ELSE FindFee(fees, material[1])
          IN /\ material # <<>> /\ feeInfo # <<>> =>
                  LET product == FeeProduct(NewRecord, feeInfo[1])
                  IN /\ NewRecord.fee_cents =
                          NumV(IF isFinite(product) THEN product ELSE Zero)
                     /\ NewRecord.fee_rate_cents_per_gram =
                          NumV(feeInfo[1].fee_cents_per_gram)
             /\ material # <<>> /\ feeInfo = <<>> => NoFeeFields(NewRecord)]_vars

\* a PET row of 10 g was charged 10 * 2.5 * (1 - 0.2) = 20 cents
C1_Witness ==
  /\ last.op = "addSubmission"
  /\ Len(submissions) = 1
  /\ submissions[1].normalized_weight_grams = N(10)
  /\ submissions[1].eco_modulation_discount = NumV(Fin(1, 5))
  /\ submissions[1].fee_cents = N(20)

\* C2 as stated: a hard-rejected row adds no record and leaves exactly one new
\* error-severity issue for that row, on weight_value in the weight case.
C2_RejectedRowLeavesOneError ==
  [][Added /\ HardRejected(last'.rows[1]) =>
       /\ submissions' = submissions
       /\ IsPrefix(validationIssues, validationIssues')
       /\ Len(NewIssues) = 1
       /\ NewIssues[1].severity = "error"
       /\ NewIssues[1].row = Len(submissions) + 1
       /\ WeightRejected(last'.rows[1]) => NewIssues[1].field = "weight_value"]_vars

NoMaterialMatches(name) ==
  \A i \in DOMAIN materials :
    toLowerCase(materials[i].material_name) # toLowerCase(name)

ErrorsIn(issues) == { i \in DOMAIN issues : issues[i].severity = "error" }

\* C3: a row that passes the hard-reject checks and whose material_name
\* matches no Material case-insensitively still appends a record, with
\* fee_cents 0, and adds exactly one error-severity issue, on material_name.
C3_UnresolvedMaterialKept ==
  [][Added /\ ~HardRejected(last'.rows[1])
        /\ NoMaterialMatches(last'.rows[1].material_name) =>
       /\ AppendedOne
       /\ \A f \in DOMAIN last'.rows[1] : NewRecord[f] = last'.rows[1][f]
       /\ NewRecord.fee_cents = NumV(Zero)
       /\ IsPrefix(validationIssues, validationIssues')
       /\ Cardinality(ErrorsIn(NewIssues)) = 1
       /\ \A i \in ErrorsIn(NewIssues) :
            /\ NewIssues[i].field = "material_name"
            /\ NewIssues[i].row = Len(submissions) + 1]_vars

\* with the materials loaded, a Cardboard row was kept
C3_Witness ==
  /\ last.op = "addSubmission"
  /\ materials # <<>>
  /\ Len(submissions) = 1
  /\ submissions[1].material_name = "Cardboard"
  /\ submissions[1].fee_cents = NumV(Zero)
  /\ \E i \in DOMAIN validationIssues :
       validationIssues[i].field = "material_name"

\* C6 as stated: under addSubmission and updateSubmission the old issue
\* collection is a prefix of the new one, and an added row appends every issue
\* its validation raised, in the order of the checks.
C6_EveryRaisedIssueAppended ==
  [][/\ Added =>
          /\ IsPrefix(validationIssues, validationIssues')
          /\ NewIssues = RowIssues(last'.rows[1], Len(submissions) + 1, materials)
     /\ Updated => IsPrefix(validationIssues, validationIssues')]_vars

\* the records the non-rejected rows of a batch give, in input order
RECURSIVE BatchRecords(_, _)
BatchRecords(rows, i) ==
  IF i > Len(rows) THEN <<>>
  ELSE (IF HardRejected(rows[i]) THEN <<>>
        ELSE processSubmission(rows[i], i, materials, fees, vendors).recs)
       \o BatchRecords(rows, i + 1)

InSeq(x, seq) == \E j \in DOMAIN seq : seq[j] = x

\* rec carries the fields of the raw row unchanged
CarriesRow(rec, raw) == \A f \in DOMAIN raw : rec[f] = raw[f]

RecordsCarryRows(recs, kept) ==
  /\ Len(recs) = Len(kept)
  /\ \A k \in DOMAIN kept : CarriesRow(recs[k], kept[k])

\* C7: after processSubmissions(rows) the record collection is exactly the
\* records of the non-rejected rows of this batch, in input order, whatever it
\* held before; every issue in the issue collection was raised by a row of
\* this batch and carries that row's 1-based position.
C7_BatchReplacesState ==
  [][Batched =>
       /\ submissions' = BatchRecords(last'.rows, 1)
       /\ RecordsCarryRows(submissions', SelectSeq(last'.rows, LAMBDA r : ~HardRejected(r)))
       /\ \A k \in DOMAIN validationIssues' :
            validationIssues'[k].row \in 1..Len(last'.rows)
       /\ \A i \in 1..Len(last'.rows) :
            \A raised \in {RowIssues(last'.rows[i], i, materials)} :
              \A k \in DOMAIN validationIssues' :
                validationIssues'[k].row = i => InSeq(validationIssues'[k], raised)]_vars

\* a batch of a rejected row followed by the three-issue row: one record, and
\* its issues carry row 2
C7_Witness ==
  /\ last.op = "processSubmissions"
  /\ Len(last.rows) = 2
  /\ HardRejected(last.rows[1])
  /\ Len(submissions) = 1
  /\ Len(validationIssues) = 3
  /\ \A k \in DOMAIN validationIssues : validationIssues[k].row = 2

\* C9: updateSubmission with an index outside 0..count-1 changes nothing; with
\* a valid index the record at that index becomes the merge of the old record
\* and the patch, the patch's fields winning, and every other record, the
\* record count and the issue collection stay as they were.
C9_UpdateFrame ==
  [][Updated =>
       LET index == last'.index
           updates == last'.patch
       IN /\ validationIssues' = validationIssues
          /\ Len(submissions') = Len(submissions)
          /\ \A j \in DOMAIN submissions : j # index + 1 => submissions'[j] = submissions[j]
          /\ index < 0 \/ index >= Len(submissions) => submissions' = submissions
          /\ index >= 0 /\ index < Len(submissions) =>
               /\ DOMAIN submissions'[index + 1] =
                    DOMAIN submissions[index + 1] \cup DOMAIN updates
               /\ \A f \in DOMAIN updates : submissions'[index + 1][f] = updates[f]
               /\ \A f \in DOMAIN submissions[index + 1] \ DOMAIN updates :
                    submissions'[index + 1][f] = submissions[index + 1][f]]_vars

\* the second of two records took the patch and the first did not
C9_Witness ==
  /\ last.op = "updateSubmission"
  /\ last.index = 1
  /\ DOMAIN last.patch # {}
  /\ Len(submissions) = 2
  /\ submissions[2].notes = "checked"
  /\ submissions[1].notes = ""

\* C10 as stated: every issue addSubmission adds carries the record count at
\* the moment of the call as its row.
C10_RowIsRecordCount ==
  [][Added => \A i \in DOMAIN NewIssues : NewIssues[i].row = Len(submissions)]_vars

\* C10 (amended): every issue addSubmission adds carries the record count at
\* the moment of the call plus one, the 1-based position of the new record.
C10_RowIsRecordCountPlusOne ==
  [][Added =>
       /\ IsPrefix(validationIssues, validationIssues')
       /\ \A i \in DOMAIN NewIssues : NewIssues[i].row = Len(submissions) + 1]_vars

\* a row added to a collection of one record raised issues numbered 2
C10_Witness ==
  /\ last.op = "addSubmission"
  /\ Len(submissions) = 2
  /\ \E i \in DOMAIN validationIssues : validationIssues[i].row = 2

\* C4: in every state reached through the service's calls and the updates
\* issued by Admin Review save and Fee Simulator apply, every record's
\* fee_cents is a finite number that is not negative
C4_FeeFiniteNonNegative ==
  \A i \in DOMAIN submissions :
    /\ submissions[i].fee_cents.t = "num"
    /\ isFinite(submissions[i].fee_cents.v)
    /\ Ge(submissions[i].fee_cents.v, Zero)

\* C5: in every state reached through the service's calls and the updates
\* issued by Admin Review save and Fee Simulator apply, every record's
\* normalized_weight_grams is greater than zero
C5_NormalizedWeightPositive ==
  \A i \in DOMAIN submissions :
    Gt(ToNumber(submissions[i].normalized_weight_grams), Zero)

\* rec holds every field of the raw row unchanged
HoldsRow(rec, raw) ==
  /\ DOMAIN raw \subseteq DOMAIN rec
  /\ \A f \in DOMAIN raw : rec[f] = raw[f]

BulkSubmitted == last'.op = "handleBulkSubmit" /\ last'.rows # <<>>

Cleared == last'.op = "clearSubmissions"

\* the number of issues the rows of a bulk submit can raise
RECURSIVE RaisedCount(_, _)
RaisedCount(rows, i) ==
  IF i > Len(rows) THEN 0
  ELSE Len(processSubmission(rows[i], i, materials, fees, vendors).pushed)
       + RaisedCount(rows, i + 1)

\* C8: after clearSubmissions both collections are empty, and after a bulk
\* submit the collections hold what the submitted rows gave and nothing of an
\* earlier submission: the records are those of the submitted rows that were
\* not rejected, in order, and every issue was raised by a submitted row.
C8_BulkSubmitLeavesNothingEarlier ==
  [][/\ Cleared => submissions' = <<>> /\ validationIssues' = <<>>
     /\ BulkSubmitted =>
          \A kept \in {SelectSeq(last'.rows, LAMBDA r : ~HardRejected(r))} :
            /\ Len(submissions') = Len(kept)
            /\ \A k \in DOMAIN kept : HoldsRow(submissions'[k], kept[k])
            /\ Len(validationIssues') = RaisedCount(last'.rows, 1)
            /\ \A k \in DOMAIN validationIssues' :
                 \E i \in DOMAIN last'.rows, n \in 1..Len(last'.rows) :
                   InSeq(validationIssues'[k], RowIssues(last'.rows[i], n, materials))]_vars

\* a bulk submit that found records of an earlier submission in the
\* collection and submitted rows of its own
C8_Witness ==
  /\ last.op = "handleBulkSubmit"
  /\ last.rows # <<>>
  /\ last.index > 0
  /\ submissions # <<>>

\* C11 as stated: for a row that the bulk validator accepts (no issue) and
\* the processor accepts (a record was appended for it), the validator's
\* calculated_fee_cents equals the record's fee_cents.
C11_ValidatorFeeIsProcessorFee ==
  \A i \in DOMAIN submissions, k \in DOMAIN validationResults :
    (validationResults[k].severity # "error"
     /\ HoldsRow(submissions[i], validationResults[k].originalData))
      => submissions[i].fee_cents =
           NumV(validationResults[k].details.calculated_fee_cents)

\* the unit strings the processor converts, in lower case
AcceptedUnits == {"grams", "g", "ounces", "oz", "pounds", "lbs"}

\* case_size as a number: the number itself, or the integer a string starts with
CoercedCaseSize(raw) ==
  CASE raw.case_size.t = "undef" -> NaN
    [] raw.case_size.t = "num" -> raw.case_size.v
    [] OTHER -> parseInt(raw.case_size.s)

\* grams divided by the case size of a case row whose case size is positive
CaseDivided(grams, raw) ==
  IF raw.quantity_basis = "case" /\ Gt(CoercedCaseSize(raw), Zero)
  THEN Div(grams, CoercedCaseSize(raw))
  ELSE grams

IssuesOn(issues, field) == { i \in DOMAIN issues : issues[i].field = field }

\* C12: a row that passes the hard-reject checks and whose weight_unit is none
\* of the accepted units is kept: its record's normalized_weight_grams is the
\* raw weight value taken as grams (divided by the case size where case
\* division applies), and exactly one issue is added on weight_unit, a warning.
C12_UnknownUnitFallsBack ==
  [][Added /\ ~HardRejected(last'.rows[1])
        /\ toLowerCase(last'.rows[1].weight_unit) \notin AcceptedUnits =>
       /\ AppendedOne
       /\ NewRecord.normalized_weight_grams =
            NumV(CaseDivided(WeightValue(last'.rows[1]), last'.rows[1]))
       /\ IsPrefix(validationIssues, validationIssues')
       /\ Cardinality(IssuesOn(NewIssues, "weight_unit")) = 1
       /\ \A i \in IssuesOn(NewIssues, "weight_unit") :
            /\ NewIssues[i].severity = "warning"
            /\ NewIssues[i].row = Len(submissions) + 1]_vars

\* a row of 400 'parsecs' was kept as 400 g with a warning on weight_unit
C12_Witness ==
  /\ last.op = "addSubmission"
  /\ Len(submissions) = 1
  /\ submissions[1].weight_unit = "parsecs"
  /\ submissions[1].quantity_basis = "unit"
  /\ submissions[1].normalized_weight_grams = N(400)
  /\ \E i \in DOMAIN validationIssues :
       validationIssues[i].field = "weight_unit" /\ validationIssues[i].severity = "warning"

\* some Material resolves the name case-insensitively, and the first that
\* does has another category_group than the row states
CategoryDiffers(raw) ==
  \E i \in DOMAIN materials :
    /\ toLowerCase(materials[i].material_name) = toLowerCase(raw.material_name)
    /\ \A j \in 1..(i - 1) :
         toLowerCase(materials[j].material_name) # toLowerCase(raw.material_name)
    /\ materials[i].category_group # raw.material_category

DataQualityFields == {"weight_unit", "weight_value", "material_category"}

\* C13: for a row that passes the hard-reject checks a record is appended
\* whatever data-quality issue is raised; the issues on weight_unit,
\* weight_value and material_category are warnings; one is raised on
\* weight_value exactly when the normalized grams exceed 300, and one on
\* material_category exactly when the material resolved and its
\* category_group differs from the row's material_category.
C13_DataQualityOnlyWarns ==
  [][Added /\ ~HardRejected(last'.rows[1]) =>
       /\ AppendedOne
       /\ IsPrefix(validationIssues, validationIssues')
       /\ \A i \in DOMAIN NewIssues :
            NewIssues[i].field \in DataQualityFields => NewIssues[i].severity = "warning"
       /\ Cardinality(IssuesOn(NewIssues, "weight_value"))
            = (IF Gt(NewRecord.normalized_weight_grams.v, Int2Num(300)) THEN 1 ELSE 0)
       /\ Cardinality(IssuesOn(NewIssues, "material_category"))
            = (IF CategoryDiffers(last'.rows[1]) THEN 1 ELSE 0)]_vars

\* a row of exactly 300 g whose category differs from its material's was
\* kept with the category warning and without the outlier warning
C13_Witness ==
  /\ last.op = "addSubmission"
  /\ Len(submissions) = 1
  /\ submissions[1].normalized_weight_grams = N(300)
  /\ submissions[1].material_name = "PET"
  /\ submissions[1].material_category = "Fiber"
  /\ IssuesOn(validationIssues, "material_category") # {}
  /\ IssuesOn(validationIssues, "weight_value") = {}

\* the factor of an accepted unit
UnitFactor(unit) ==
  CASE toLowerCase(unit) \in {"grams", "g"} -> One
    [] toLowerCase(unit) \in {"ounces", "oz"} -> Fin(2835, 100)
    [] OTHER -> Fin(45359, 100)

\* the row with twice the weight
Doubled(raw) ==
  [raw EXCEPT !.weight_value = NumV(Mul(Int2Num(2), WeightValue(raw)))]

\* C14: for a row with an accepted unit, in any letter case, the normalized
\* grams are the weight times the unit's fixed factor (1, 28.35 or 453.59),
\* divided by the case size where case division applies; the same row with
\* twice the weight gets twice the normalized grams.
C14_UnitConversionLinear ==
  [][Added /\ ~HardRejected(last'.rows[1])
        /\ toLowerCase(last'.rows[1].weight_unit) \in AcceptedUnits =>
       /\ AppendedOne
       /\ NewRecord.normalized_weight_grams =
            NumV(CaseDivided(Mul(WeightValue(last'.rows[1]),
                                 UnitFactor(last'.rows[1].weight_unit)),
                             last'.rows[1]))
       /\ \A twice \in {processSubmission(Doubled(last'.rows[1]), Len(submissions) + 1,
                                           materials, fees, vendors).recs} :
            /\ Len(twice) = 1
            /\ twice[1].normalized_weight_grams =
                 NumV(Mul(Int2Num(2), NewRecord.normalized_weight_grams.v))]_vars

\* a row of 10 'OZ' was normalized to 283.5 g
C14_Witness ==
  /\ last.op = "addSubmission"
  /\ Len(submissions) = 1
  /\ submissions[1].weight_unit = "OZ"
  /\ submissions[1].weight_value = N(10)
  /\ submissions[1].normalized_weight_grams = NumV(Fin(567, 2))

\* the weight converted to grams, before case division
ConvertedGrams(raw) ==
  IF toLowerCase(raw.weight_unit) \in AcceptedUnits
  THEN Mul(WeightValue(raw), UnitFactor(raw.weight_unit))
  ELSE WeightValue(raw)

\* C15: a case row whose case_size coerces to a positive number gets
\* normalized grams = converted grams / case_size; a unit row, or a row whose
\* case_size is absent, non-numeric or <= 0, keeps the converted grams; the
\* processor adds no issue on case_size.
C15_CaseDivision ==
  [][Added /\ ~HardRejected(last'.rows[1]) =>
       /\ AppendedOne
       /\ NewRecord.normalized_weight_grams =
            NumV(IF last'.rows[1].quantity_basis = "case"
                    /\ Gt(CoercedCaseSize(last'.rows[1]), Zero)
                 THEN Div(ConvertedGrams(last'.rows[1]), CoercedCaseSize(last'.rows[1]))
                 ELSE ConvertedGrams(last'.rows[1]))
       /\ \A i \in DOMAIN NewIssues : NewIssues[i].field # "case_size"]_vars

\* 240 g in a case of '12' gave 20 g
C15_Witness ==
  /\ last.op = "addSubmission"
  /\ Len(submissions) = 1
  /\ submissions[1].quantity_basis = "case"
  /\ submissions[1].case_size = Str("12")
  /\ submissions[1].weight_value = Str("240")
  /\ submissions[1].weight_unit = "g"
  /\ submissions[1].normalized_weight_grams = N(20)

\* m is the Material the name resolves to: the first whose name equals it
\* without regard to letter case
ResolvesTo(name, m) ==
  /\ m \in DOMAIN materials
  /\ toLowerCase(materials[m].material_name) = toLowerCase(name)
  /\ \A j \in 1..(m - 1) : toLowerCase(materials[j].material_name) # toLowerCase(name)

\* f is the fee entry of exactly that name: the first one
ExactEntry(name, f) ==
  /\ f \in DOMAIN fees
  /\ fees[f].material_name = name
  /\ \A j \in 1..(f - 1) : fees[j].material_name # name

\* C16: a row whose material_name equals a Material's name up to letter case
\* is charged with the fee entry whose name is exactly the Material's
\* canonical name (its rate and discount, the fee being their product with the
\* grams when finite); when no entry has exactly that name, an entry differing
\* by case included, the rate, the discount and the fee are 0.
C16_FeeJoinExactOnCanonicalName ==
  [][Added /\ ~HardRejected(last'.rows[1]) =>
       \A m \in DOMAIN materials :
         ResolvesTo(last'.rows[1].material_name, m) =>
           /\ AppendedOne
           /\ \A f \in DOMAIN fees :
                ExactEntry(materials[m].material_name, f) =>
                  /\ NewRecord.fee_rate_cents_per_gram = NumV(fees[f].fee_cents_per_gram)
                  /\ NewRecord.eco_modulation_discount =
                       NumV(ToNumber(OrVal(fees[f].eco_modulation_discount, NumV(Zero))))
                  /\ \A product \in {FeeProduct(NewRecord, fees[f])} :
                       NewRecord.fee_cents =
                         NumV(IF isFinite(product) THEN product ELSE Zero)
           /\ (\A f \in DOMAIN fees : ~ExactEntry(materials[m].material_name, f)) =>
                /\ NewRecord.fee_rate_cents_per_gram = NumV(Zero)
                /\ NewRecord.eco_modulation_discount = NumV(Zero)
                /\ NewRecord.fee_cents = NumV(Zero)]_vars

\* a 'Pet' row was charged at the rate of the entry 'PET'
C16_Witness ==
  /\ last.op = "addSubmission"
  /\ Len(submissions) = 1
  /\ submissions[1].material_name = "Pet"
  /\ submissions[1].fee_rate_cents_per_gram = NumV(Fin(5, 2))
  /\ submissions[1].normalized_weight_grams = N(10)
  /\ submissions[1].fee_cents = N(20)

\* the vendor ids rows are compared under: an exempt vendor, a vendor that is
\* not exempt, and one that is not in the registry
VendorIds == {"V1", "V2", "V9"}

FeeFields ==
  {"normalized_weight_grams", "fee_cents", "fee_rate_cents_per_gram",
   "eco_modulation_discount"}

\* the exempt flag the registry holds for the vendor, false for none
RegistryExempt(vendorId) ==
  \E i \in DOMAIN vendors :
    /\ vendors[i].vendor_id = vendorId
    /\ \A j \in 1..(i - 1) : vendors[j].vendor_id # vendorId
    /\ vendors[i].exempt

\* C17: the same row under any other vendor, exempt, not exempt or unknown,
\* gives a record with the same normalized grams, fee, rate and discount; the
\* record's is_exempt is the exempt flag of the row's vendor in the registry,
\* false when the vendor is not there.
C17_ExemptionLeavesFeeAlone ==
  [][Added /\ ~HardRejected(last'.rows[1]) =>
       /\ AppendedOne
       /\ NewRecord.is_exempt = RegistryExempt(last'.rows[1].vendor_id)
       /\ \A v \in VendorIds :
            \A other \in {processSubmission([last'.rows[1] EXCEPT !.vendor_id = v],
                                            Len(submissions) + 1,
                                            materials, fees, vendors).recs} :
              /\ Len(other) = 1
              /\ \A f \in FeeFields : other[1][f] = NewRecord[f]
              /\ other[1].is_exempt = RegistryExempt(v)]_vars

\* a row of the exempt vendor V1 was charged 20 cents like any other
C17_Witness ==
  /\ last.op = "addSubmission"
  /\ Len(submissions) = 1
  /\ submissions[1].vendor_id = "V1"
  /\ submissions[1].is_exempt = TRUE
  /\ submissions[1].material_name = "PET"
  /\ submissions[1].fee_cents = N(20)

\* rows_with_errors before and after the step
ErrorRows == getOverviewStats(Current).rows_with_errors
ErrorRowsAfter == getOverviewStats(State(submissions', validationIssues')).rows_with_errors

\* the input rows of the batch that the error issues of the collection name
ErrorRowNumbers == { validationIssues'[k].row : k \in ErrorsIn(validationIssues') }

\* C18: rows_with_errors counts the records whose validation raised an
\* error. It is 0 with the collections empty, and every call keeps it so:
\* addSubmission raises it by one exactly when the row's validation raised an
\* error, and then a record was appended for the row; updateSubmission leaves
\* it and the number of records alone; after processSubmissions it is the
\* number of rows of the batch that raised an error, each of which gave a
\* record; after clearSubmissions it is 0 and no record is left.
C18_ErrorRowsCountsRecords ==
  [][/\ Added =>
          /\ ErrorsIn(NewIssues) # {} => AppendedOne
          /\ ErrorRowsAfter = ErrorRows + (IF ErrorsIn(NewIssues) # {} THEN 1 ELSE 0)
     /\ Updated =>
          /\ ErrorRowsAfter = ErrorRows
          /\ Len(submissions') = Len(submissions)
     /\ Batched =>
          /\ ErrorRowsAfter = Cardinality(ErrorRowNumbers)
          /\ \A n \in ErrorRowNumbers :
               n \in DOMAIN last'.rows /\ ~HardRejected(last'.rows[n])
          /\ Len(submissions') =
               Len(SelectSeq(last'.rows, LAMBDA r : ~HardRejected(r)))
     /\ Cleared => ErrorRowsAfter = 0 /\ submissions' = <<>>]_vars

\* two records, one of them of a row that raised an error and two warnings:
\* rows_with_errors is 1 of 3 issues
C18_Witness ==
  /\ Len(submissions) = 2
  /\ Len(validationIssues) = 3
  /\ getOverviewStats(Current).rows_with_errors = 1
  /\ \E i \in DOMAIN submissions : submissions[i].material_name = "Cardboard"

\* the SKU groups of the records, whatever the limit
TopSkus == getTopSkusByFee(DefaultLimit, Current, vendors, products)

\* C19 as stated: every SKU group has fee_per_gram_cents =
\* sku_total_cents / total_grams when total_grams > 0, and 0 otherwise.
C19_FeePerGramOverGroup ==
  \A k \in DOMAIN TopSkus :
    TopSkus[k].fee_per_gram_cents =
      (IF Gt(TopSkus[k].total_grams, Zero)
       THEN Div(TopSkus[k].sku_total_cents, TopSkus[k].total_grams)
       ELSE Zero)

\* the sum of a numeric field over the records of one SKU
RECURSIVE SkuSum(_, _, _)
SkuSum(sku, field, i) ==
  IF i > Len(submissions) THEN Zero
  ELSE Add(IF submissions[i].sku_id = sku THEN ToNumber(submissions[i][field]) ELSE Zero,
           SkuSum(sku, field, i + 1))

Min(a, b) == IF a < b THEN a ELSE b

\* C20: getTopSkusByFee(limit) returns one entry per distinct sku_id, whose
\* total_grams and sku_total_cents are the sums over the SKU's records, in
\* order of non-increasing sku_total_cents, cut to the first limit entries
\* (all of them under the default limit of 10 while there are no more than 10
\* SKUs); a SKU left out has a total no greater than any returned one.
C20_TopSkusSortedAndTruncated ==
  \A limit \in Limits :
    \A top \in {getTopSkusByFee(limit, Current, vendors, products)} :
      /\ Len(top) = Min(limit, Cardinality(Distinct(submissions, "sku_id")))
      /\ \A j, k \in DOMAIN top : j # k => top[j].sku_id # top[k].sku_id
      /\ \A k \in DOMAIN top :
           /\ top[k].sku_id \in Distinct(submissions, "sku_id")
           /\ top[k].total_grams = SkuSum(top[k].sku_id, "normalized_weight_grams", 1)
           /\ top[k].sku_total_cents = SkuSum(top[k].sku_id, "fee_cents", 1)
      /\ \A k \in 1..(Len(top) - 1) :
           Ge(top[k].sku_total_cents, top[k + 1].sku_total_cents)
      /\ \A sku \in Distinct(submissions, "sku_id") \ { top[k].sku_id : k \in DOMAIN top } :
           \A k \in DOMAIN top : Ge(top[k].sku_total_cents, SkuSum(sku, "fee_cents", 1))

\* the record of S1 (20 cents) came before the record of S2 (28.35 cents):
\* the top one SKU is S2, and S1 is left out
C20_Witness ==
  /\ Len(submissions) = 2
  /\ submissions[1].sku_id = "S1"
  /\ submissions[2].sku_id = "S2"
  /\ submissions[1].fee_cents = N(20)
  /\ Len(getTopSkusByFee(1, Current, vendors, products)) = 1
  /\ getTopSkusByFee(1, Current, vendors, products)[1].sku_id = "S2"
  /\ getTopSkusByFee(1, Current, vendors, products)[1].sku_total_cents = Fin(567, 20)

\* the vendor totals of the records
VendorTotals == getVendorTotals(Current, vendors)

\* the sum of a numeric field over the records of one vendor
RECURSIVE VendorSum(_, _, _)
VendorSum(vendor, field, i) ==
  IF i > Len(submissions) THEN Zero
  ELSE Add(IF submissions[i].vendor_id = vendor THEN ToNumber(submissions[i][field]) ELSE Zero,
           VendorSum(vendor, field, i + 1))

\* the distinct SKUs among the records of one vendor
VendorSkus(vendor) ==
  { submissions[i].sku_id : i \in { j \in DOMAIN submissions : submissions[j].vendor_id = vendor } }

\* C21: getVendorTotals returns one entry per distinct vendor_id, whose
\* total_fee_cents and total_grams are the sums over the vendor's records and
\* whose sku_count is the number of distinct sku_ids among them, in order of
\* non-increasing total_fee_cents.
C21_VendorTotalsGroupedAndSorted ==
  \A totals \in {VendorTotals} :
    /\ Len(totals) = Cardinality(Distinct(submissions, "vendor_id"))
    /\ \A j, k \in DOMAIN totals : j # k => totals[j].vendor_id # totals[k].vendor_id
    /\ \A k \in DOMAIN totals :
         /\ totals[k].vendor_id \in Distinct(submissions, "vendor_id")
         /\ totals[k].total_fee_cents = VendorSum(totals[k].vendor_id, "fee_cents", 1)
         /\ totals[k].total_grams =
              VendorSum(totals[k].vendor_id, "normalized_weight_grams", 1)
         /\ totals[k].sku_count = Cardinality(VendorSkus(totals[k].vendor_id))
    /\ \A k \in 1..(Len(totals) - 1) :
         Ge(totals[k].total_fee_cents, totals[k + 1].total_fee_cents)

\* two records of vendor V2 share the SKU S2: one entry, one SKU, and the
\* fees of both records summed
C21_Witness ==
  /\ Len(submissions) = 2
  /\ submissions[1].vendor_id = "V2" /\ submissions[1].sku_id = "S2"
  /\ submissions[2].vendor_id = "V2" /\ submissions[2].sku_id = "S2"
  /\ Len(VendorTotals) = 1
  /\ VendorTotals[1].sku_count = 1
  /\ VendorTotals[1].total_fee_cents =
       Add(ToNumber(submissions[1].fee_cents), ToNumber(submissions[2].fee_cents))
  /\ Gt(VendorTotals[1].total_fee_cents, ToNumber(submissions[1].fee_cents))

\* the step is a call of one of the three aggregations
Queried == last'.op \in {"getOverviewStats", "getTopSkusByFee", "getVendorTotals"}

\* the step repeats the call before it, with the same argument
QueriedAgain == Queried /\ last'.op = last.op /\ last'.index = last.index

ProcessorAccepts(row) ==
  processSubmission(row, Len(submissions) + 1, materials, fees, vendors).recs # <<>>

\* C23 as stated: every uploaded row that validateFileData classifies as
\* valid (no issue of its own) becomes a record when addSubmission is given
\* it.
C23_ValidatorAcceptedRowsAreProcessed ==
  \A k \in DOMAIN validationResults :
    validationResults[k].isValid => ProcessorAccepts(validationResults[k].originalData)

\* the validation result of an uploaded row: the one made from that row
ResultsOf(row) ==
  { k \in DOMAIN validationResults : validationResults[k].originalData = row }

\* the uploaded rows whose own validation result is not an error, in order
RowsWithoutErrors ==
  SelectSeq(fileData,
            LAMBDA row : \E k \in ResultsOf(row) : validationResults[k].severity # "error")

\* C24 as stated: bulk submit passes to addSubmission exactly the uploaded
\* rows whose own validation result has no errors, and never a row whose
\* validation result has severity 'error', also when the upload holds empty
\* rows that validation left out.
C24_BulkSubmitPassesRowsWithoutErrors ==
  [][BulkSubmitted =>
       /\ \A k \in DOMAIN last'.rows :
            \A j \in ResultsOf(last'.rows[k]) : validationResults[j].severity # "error"
       /\ \A k \in DOMAIN RowsWithoutErrors : InSeq(RowsWithoutErrors[k], last'.rows)]_vars

\* the rows of every file of the current selection
SelectedRows ==
  UNION { { ParsedRows(uploadFiles[i], i - 1)[k] :
              k \in DOMAIN ParsedRows(uploadFiles[i], i - 1) } :
          i \in DOMAIN uploadFiles }

\* every read of the current selection has completed
ReadsCompleted == uploadFiles # <<>> /\ pendingReads = {}

\* C25 as stated: once the reads of a selection have all completed, in
\* whatever order, the validated data holds the rows of every file of the
\* selection: each row is in fileData and each row that is not empty has its
\* validation result.
C25_AllFilesValidated ==
  ReadsCompleted =>
    \A row \in SelectedRows :
      /\ InSeq(row, fileData)
      /\ KeepRow(row) => ResultsOf(row) # {}

\* the results of selecting a stored record and running the simulation with
\* the parameters the selection filled in
SimulatedAsStored(rec) == runSimulation(rec, handleSubmissionSelect(rec), fees)

\* C26 as stated: for every stored record whose material the simulator
\* finds, the simulation run right after the selection gives the record's
\* normalized_weight_grams as simulated weight and its fee_cents as simulated
\* fee (fee difference 0), whatever unit spelling and quantity basis the
\* processor accepted.
C26_SimulatorAgreesWithProcessor ==
  \A i \in DOMAIN submissions :
    SimulatorFindsMaterial(materials, fees, submissions[i].material_name) =>
      \A results \in {SimulatedAsStored(submissions[i])} :
        /\ ToNumber(results.simulated.weight) =
             ToNumber(submissions[i].normalized_weight_grams)
        /\ ToNumber(results.simulated.fee) = ToNumber(submissions[i].fee_cents)
        /\ results.comparison.feeDifference = Zero

\* C27: in every state reached through processSubmissions, addSubmission and
\* updateSubmission, rows_with_errors is no greater than total_submissions,
\* so the compliance rate (total_submissions - rows_with_errors) /
\* total_submissions is not negative.
C27_ErrorRowsWithinSubmissions ==
  \A stats \in {getOverviewStats(Current)} :
    stats.rows_with_errors <= stats.total_submissions

\* a rejected row was given to addSubmission while the one stored record
\* carries an error: the count of error rows has reached the count of
\* records and the rejected row has not raised it
C27_Witness ==
  /\ last.op = "addSubmission"
  /\ HardRejected(last.rows[1])
  /\ getOverviewStats(Current).total_submissions = 1
  /\ getOverviewStats(Current).rows_with_errors = 1

\* the sum of a numeric field over the entries of an aggregation's output
RECURSIVE SumField(_, _, _)
SumField(entries, field, i) ==
  IF i > Len(entries) THEN Zero
  ELSE Add(entries[i][field], SumField(entries, field, i + 1))

\* the sum of fee_cents over the first n records
RECURSIVE FeesUpTo(_)
FeesUpTo(n) ==
  IF n = 0 THEN Zero ELSE Add(FeesUpTo(n - 1), ToNumber(submissions[n].fee_cents))

C29_TablesStableAfterLoadAllData ==
  [][/\ loadPromise' = "resolved" => \A t \in TableNames : loads'[t] # "pending"
     /\ (loadPromise = "resolved" /\ loadPromise' = "resolved") =>
          referenceTables' = referenceTables]_vars

\* C30: in every reachable state of the wizard currentStep is one of the four
\* step indices 0..3, and it is 1 or more only if the upload step has been
\* completed.
C30_WizardStepValid ==
  /\ currentStep \in 0..(Len(StepIds) - 1)
  /\ currentStep >= 1 => workflowData.filesUploaded

\* every step has been completed, and a click on the last step of the
\* progress bar shows the dashboard with the figures read from the service
C30_Witness ==
  /\ last.op = "handleStepClick"
  /\ last.index = 3
  /\ currentStep = 3
  /\ workflowData.filesUploaded /\ workflowData.reviewCompleted /\ workflowData.simulationDone
  /\ dashboardData.stats # <<>>

====
